---- MODULE Spec2Model ----
(***************************************************************************)
(* Model of the orb-optimizer web front-end: the profile editor (profile  *)
(* list, shareable categories, category propagation), destructive         *)
(* template application, the editor over an object store (aliasing), the  *)
(* result normalizer, the orb list with its import and form, the optimize *)
(* request, local persistence and the slot tables.  Each component has    *)
(* its own specification; the variables of the others are held at their   *)
(* initial values.                                                         *)
(*                                                                         *)
(* Conventions.  JavaScript arrays are sequences, so the JS index i is the *)
(* TLA+ index i+1.  A JS object used as a map (Record<string, X>) is a     *)
(* function whose DOMAIN is the set of its own keys.  power is kept in     *)
(* tenths (2.0 -> 20, 2.5 -> 25) and epsilon in hundredths (0.02 -> 2).    *)
(*                                                                         *)
(* The repository holds two implementations of ProfilesEditor: the one     *)
(* with priority templates (ProfilesEditor.tsx lines 1-103) and the one    *)
(* without (lines 105-208).  The variable editor says which one is         *)
(* mounted; it never changes.                                              *)
(***************************************************************************)
EXTENDS Integers, Sequences, FiniteSets, TLC

VARIABLES
  editor,      \* which ProfilesEditor is mounted: "templates" or "plain"
  profiles,    \* Home: useState<OptimizeProfileIn[]>
  shareable,   \* Home: useState<string[]>
  last,        \* history: the user action that produced the current state
  tplProfile,  \* applyTemplateToProfile: argument profile
  tplTemplate, \* applyTemplateToProfile: argument tpl
  tplBase,     \* applyTemplateToProfile: argument base
  tplOut,      \* applyTemplateToProfile: results of successive applications
  heap,        \* object store: the JS objects alive, by reference
  hProfiles,   \* Home: the profile list as references into heap
  hLast,       \* history: the last editor action on the object store
  raw,         \* parseResultsFromRaw: argument raw
  parsed,      \* parseResultsFromRaw: return value
  orbs,        \* Home: useState<OrbIn[]>
  importError, \* OrbsEditor: useState<string | null>
  dialog,      \* OrbsEditor: which modal dialog is open
  form,        \* OrbsEditor: useState<OrbFormState>
  editingIndex,\* OrbsEditor: useState<number | null>
  oLast,       \* history: the last orb-list action and its input
  loading,     \* Home: useState(false)
  error,       \* Home: useState<string | null>
  resp,        \* Home: useState<OptimizeResponse | null>
  pending,     \* optimize requests in flight, each with its payload
  runs,        \* optimize requests dispatched so far
  rLast,       \* history: the last step of handleRun; at dispatch the result
               \* held before it, at the end the network outcome
  storage,     \* localStorage: the item under KEY, or null when there is none
  pLast,       \* history: the last persistence call, its fault and its return
  slotValue,   \* ProfileCategoryPicker: the prop value (a categories map)
  slotRarity,  \* slotsForRarity: argument rarity
  slotOut      \* what the picker renders and what the lookups return

tplVars == <<tplProfile, tplTemplate, tplBase, tplOut>>

heapVars == <<heap, hProfiles, hLast>>

parseVars == <<raw, parsed>>

orbVars == <<orbs, importError, dialog, form, editingIndex, oLast>>

runVars == <<loading, error, resp, pending, runs, rLast>>

\* The variables of the components a profile-editor step never touches.
persistVars == <<storage, pLast>>

slotVars == <<slotValue, slotRarity, slotOut>>

auxVars == <<heapVars, parseVars, orbVars, runVars, persistVars, slotVars>>

vars == <<editor, profiles, shareable, last, tplVars, auxVars>>

----------------------------------------------------------------------------
(* Bounds *)

\* Most profiles the editor holds.
MaxProfiles == 2

\* Most successive applications of one template to its own output.
MaxApply == 2

----------------------------------------------------------------------------
(* JS object maps *)

EmptyMap == [k \in {} |-> 0]

\* { ...m, [k]: v }
MapSet(m, k, v) == [x \in (DOMAIN m) \cup {k} |-> IF x = k THEN v ELSE m[x]]

\* delete m[k]
MapDel(m, k) == [x \in (DOMAIN m) \ {k} |-> m[x]]

\* Array.prototype.includes
Includes(s, x) == \E i \in DOMAIN s : s[i] = x

----------------------------------------------------------------------------
(* JavaScript values *)

\* A value of unknown type (raw JSON, a thrown message, a nullable state) is
\* a record tagged with its JS type: undefined, null, a finite number, a
\* non-finite number, a string, a boolean, an array, or an object whose own
\* properties are kept in insertion order (the order of Object.entries).
JUndef == [t |-> "undef"]

JNull == [t |-> "null"]

JInf == [t |-> "inf"]

JNum(n) == [t |-> "num", n |-> n]

JStr(str) == [t |-> "str", s |-> str]

JBool(b) == [t |-> "bool", b |-> b]

JArr(elems) == [t |-> "arr", a |-> elems]

JObj(entries) == [t |-> "obj", o |-> entries]

\* One own property of an object.
Prop(k, v) == [k |-> k, v |-> v]

\* typeof x === "object" (true of null and of arrays too)
TypeofObject(x) == x.t \in {"null", "arr", "obj"}

\* typeof x === "number"
TypeofNumber(x) == x.t \in {"num", "inf"}

\* Boolean(x): the values the conditions of the code treat as true
Truthy(x) ==
  CASE x.t \in {"undef", "null"} -> FALSE
    [] x.t = "num" -> x.n # 0
    [] x.t = "str" -> x.s # ""
    [] x.t = "bool" -> x.b
    [] OTHER -> TRUE

\* x?.k : undefined unless x is an object with the own property k
Get(x, k) ==
  IF x.t = "obj" /\ \E i \in DOMAIN x.o : x.o[i].k = k
  THEN x.o[CHOOSE i \in DOMAIN x.o : x.o[i].k = k].v
  ELSE JUndef

\* a ?? b
Coalesce(a, b) == IF a.t \in {"undef", "null"} THEN b ELSE a

----------------------------------------------------------------------------
(* Category data *)

CATEGORIES == <<"Soul", "Wings", "Ego", "Beast", "Wagon">>

RARITIES == <<"Rare", "Epic", "Legendary", "Mythic">>

CLEAR_VALUE == "__none__"

\* The categories and select values the model exercises.
Cats == {"Soul", "Wings"}
SelectValues == {"Rare", CLEAR_VALUE}

\* ProfileCard's Select onValueChange: the value handed to onSetCategory.
onValueChange(val) == IF val = CLEAR_VALUE THEN "" ELSE val

----------------------------------------------------------------------------
(* Baseline defaults and built-in templates *)

PROFILE_DEFAULTS ==
  [name |-> "New Profile", weight |-> 1, objective |-> "sets-first",
   power |-> 20, epsilon |-> 2,
   categories |-> EmptyMap, set_priority |-> EmptyMap,
   orb_weights |-> EmptyMap, orb_level_weights |-> EmptyMap]

PRIORITY_TEMPLATES ==
  << [id |-> "Early Game - Stages", label |-> "Early Game - Stages",
      objective |-> "sets-first", power |-> 20, epsilon |-> 2,
      set_priority |-> [Beelzebub |-> 5, Mammon |-> 4],
      orb_weights |-> [Flame |-> 2, Lightning |-> 2, Sun |-> 2]],
     [id |-> "Mid Game - Stages", label |-> "Mid Game - Stages",
      objective |-> "sets-first", power |-> 25, epsilon |-> 2,
      set_priority |-> [Leviathan |-> 5, Beelzebub |-> 3, Belphegor |-> 3],
      orb_weights |-> [Steel |-> 3, Wind |-> 2, Sun |-> 2, Lightning |-> 2],
      orb_level_weights |-> [Wind |-> 3, Steel |-> 3]],
     [id |-> "Late Game - Stages", label |-> "Late Game - Stages",
      objective |-> "sets-first", power |-> 25, epsilon |-> 2,
      set_priority |-> [Leviathan |-> 5, Belphegor |-> 3],
      orb_weights |-> [Steel |-> 5, Wind |-> 3, Earth |-> 3],
      orb_level_weights |-> [Earth |-> 5, Wind |-> 3, Steel |-> 3]] >>

\* tpl.f is defined (not undefined)
Has(tpl, f) == f \in DOMAIN tpl

\* PRIORITY_TEMPLATES.find((t) => t.id === id): index of the first match, 0 if none
FindTemplate(id) ==
  IF \E i \in DOMAIN PRIORITY_TEMPLATES : PRIORITY_TEMPLATES[i].id = id
  THEN CHOOSE i \in DOMAIN PRIORITY_TEMPLATES :
         /\ PRIORITY_TEMPLATES[i].id = id
         /\ \A j \in 1..(i-1) : PRIORITY_TEMPLATES[j].id # id
  ELSE 0

\* The template ids a picker can hold: "" (nothing picked) or a built-in id.
TplIds == {""} \cup {PRIORITY_TEMPLATES[i].id : i \in DOMAIN PRIORITY_TEMPLATES}

\* The ids the profile editor's pickers are given in Spec.
PickedIds == {"", "Early Game - Stages"}

\* Variant: the two carried-over primitives are crossed (power falls back to
\* the carried epsilon and epsilon to the carried power).
applyTemplateToProfile_swap(profile, tpl, base) ==
  LET reset == [base EXCEPT !.name = profile.name,
                            !.weight = profile.weight,
                            !.power = profile.power,
                            !.epsilon = profile.epsilon]
  IN [reset EXCEPT
        !.objective = IF Has(tpl, "objective") THEN tpl.objective ELSE reset.objective,
        !.power = IF Has(tpl, "power") THEN tpl.power ELSE reset.epsilon,
        !.epsilon = IF Has(tpl, "epsilon") THEN tpl.epsilon ELSE reset.power,
        !.categories = IF Has(tpl, "categories") THEN tpl.categories
                       ELSE reset.categories,
        !.set_priority = IF Has(tpl, "set_priority") THEN tpl.set_priority
                         ELSE reset.set_priority,
        !.orb_weights = IF Has(tpl, "orb_weights") THEN tpl.orb_weights
                        ELSE reset.orb_weights,
        !.orb_level_weights = IF Has(tpl, "orb_level_weights")
                              THEN tpl.orb_level_weights
                              ELSE reset.orb_level_weights]

\* { ...a, ...b }
MapMerge(a, b) ==
  [x \in (DOMAIN a) \cup (DOMAIN b) |-> IF x \in DOMAIN b THEN b[x] ELSE a[x]]

\* Variant: the reset starts from the profile, not from the baseline, and a
\* template map is merged into the profile's map.
applyTemplateToProfile_merge(profile, tpl, base) ==
  [profile EXCEPT
     !.objective = IF Has(tpl, "objective") THEN tpl.objective ELSE base.objective,
     !.power = IF Has(tpl, "power") THEN tpl.power ELSE profile.power,
     !.epsilon = IF Has(tpl, "epsilon") THEN tpl.epsilon ELSE profile.epsilon,
     !.categories = IF Has(tpl, "categories")
                    THEN MapMerge(profile.categories, tpl.categories)
                    ELSE profile.categories,
     !.set_priority = IF Has(tpl, "set_priority")
                      THEN MapMerge(profile.set_priority, tpl.set_priority)
                      ELSE profile.set_priority,
     !.orb_weights = IF Has(tpl, "orb_weights")
                     THEN MapMerge(profile.orb_weights, tpl.orb_weights)
                     ELSE profile.orb_weights,
     !.orb_level_weights = IF Has(tpl, "orb_level_weights")
                           THEN MapMerge(profile.orb_level_weights,
                                         tpl.orb_level_weights)
                           ELSE profile.orb_level_weights]

\* Variant: name and weight are not written back over the baseline's.
applyTemplateToProfile_noidentity(profile, tpl, base) ==
  LET reset == [base EXCEPT !.power = profile.power,
                            !.epsilon = profile.epsilon]
  IN [reset EXCEPT
        !.objective = IF Has(tpl, "objective") THEN tpl.objective ELSE reset.objective,
        !.power = IF Has(tpl, "power") THEN tpl.power ELSE reset.power,
        !.epsilon = IF Has(tpl, "epsilon") THEN tpl.epsilon ELSE reset.epsilon,
        !.categories = IF Has(tpl, "categories") THEN tpl.categories
                       ELSE reset.categories,
        !.set_priority = IF Has(tpl, "set_priority") THEN tpl.set_priority
                         ELSE reset.set_priority,
        !.orb_weights = IF Has(tpl, "orb_weights") THEN tpl.orb_weights
                        ELSE reset.orb_weights,
        !.orb_level_weights = IF Has(tpl, "orb_level_weights")
                              THEN tpl.orb_level_weights
                              ELSE reset.orb_level_weights]

applyTemplateToProfile(profile, tpl, base) ==
  LET reset == [base EXCEPT !.name = profile.name,
                            !.weight = profile.weight,
                            !.power = profile.power,
                            !.epsilon = profile.epsilon]
  IN [reset EXCEPT
        !.objective = IF Has(tpl, "objective") THEN tpl.objective ELSE reset.objective,
        !.power = IF Has(tpl, "power") THEN tpl.power ELSE reset.power,
        !.epsilon = IF Has(tpl, "epsilon") THEN tpl.epsilon ELSE reset.epsilon,
        !.categories = IF Has(tpl, "categories") THEN tpl.categories
                       ELSE reset.categories,
        !.set_priority = IF Has(tpl, "set_priority") THEN tpl.set_priority
                         ELSE reset.set_priority,
        !.orb_weights = IF Has(tpl, "orb_weights") THEN tpl.orb_weights
                        ELSE reset.orb_weights,
        !.orb_level_weights = IF Has(tpl, "orb_level_weights")
                              THEN tpl.orb_level_weights
                              ELSE reset.orb_level_weights]

----------------------------------------------------------------------------
(* ProfilesEditor, the implementation with templates (lines 1-103) *)

\* Variant: a new profile starts from the first built-in template.
blank_template ==
  applyTemplateToProfile(PROFILE_DEFAULTS, PRIORITY_TEMPLATES[1], PROFILE_DEFAULTS)

blank == PROFILE_DEFAULTS

update(ps, index, np) == [ps EXCEPT ![index] = np]

\* Variant: the shareable test is dropped and every profile is written.
handleSetCategory_always(ps, sh, index, cat, rarity) ==
  [i \in DOMAIN ps |->
     [ps[i] EXCEPT !.categories = MapSet(ps[i].categories, cat, rarity)]]

\* Variant: the propagation branch is dropped and only the target is written.
handleSetCategory_noprop(ps, sh, index, cat, rarity) ==
  [ps EXCEPT ![index] =
     [ps[index] EXCEPT !.categories = MapSet(ps[index].categories, cat, rarity)]]

handleSetCategory(ps, sh, index, cat, rarity) ==
  LET p == ps[index]
      updated == [p EXCEPT !.categories = MapSet(p.categories, cat, rarity)]
      next == [ps EXCEPT ![index] = updated]
  IN IF Includes(sh, cat)
     THEN [i \in DOMAIN next |->
             IF i = index THEN updated
             ELSE [next[i] EXCEPT
                     !.categories = MapSet(next[i].categories, cat, rarity)]]
     ELSE next

applyTemplateToAll(ps, tplId) ==
  LET t == FindTemplate(tplId)
  IN IF t = 0 THEN ps
     ELSE [i \in DOMAIN ps |->
             applyTemplateToProfile(ps[i], PRIORITY_TEMPLATES[t], PROFILE_DEFAULTS)]

\* ProfileCardWithTemplates.handleApply: the profile handed to onChange
handleApply(value, localTplId) ==
  LET t == FindTemplate(localTplId)
  IN IF t = 0 THEN value
     ELSE applyTemplateToProfile(value, PRIORITY_TEMPLATES[t], PROFILE_DEFAULTS)

----------------------------------------------------------------------------
(* ProfilesEditor, the implementation without templates (lines 105-208) *)

blankPlain ==
  [name |-> "New Profile", weight |-> 1, objective |-> "sets-first",
   power |-> 20, epsilon |-> 2,
   set_priority |-> EmptyMap, orb_weights |-> EmptyMap,
   orb_level_weights |-> EmptyMap, categories |-> EmptyMap]

\* lines 155-157 and 165-167: if (!rarity) delete cats[cat]; else cats[cat] = rarity
setOrDelete(cats, cat, rarity) ==
  IF rarity = "" THEN MapDel(cats, cat) ELSE MapSet(cats, cat, rarity)

\* Variant: the propagation loop leaves at pIndex (break for continue), so
\* the profiles after the target are not written.
handleSetCategoryPlain_break(ps, sh, pIndex, cat, rarity) ==
  LET next == [idx \in DOMAIN ps |->
                 IF idx # pIndex THEN ps[idx]
                 ELSE [ps[idx] EXCEPT
                         !.categories = setOrDelete(ps[idx].categories, cat, rarity)]]
  IN IF Includes(sh, cat)
     THEN [i \in DOMAIN next |->
             IF i >= pIndex THEN next[i]
             ELSE [next[i] EXCEPT
                     !.categories = setOrDelete(next[i].categories, cat, rarity)]]
     ELSE next

handleSetCategoryPlain(ps, sh, pIndex, cat, rarity) ==
  LET next == [idx \in DOMAIN ps |->
                 IF idx # pIndex THEN ps[idx]
                 ELSE [ps[idx] EXCEPT
                         !.categories = setOrDelete(ps[idx].categories, cat, rarity)]]
  IN IF Includes(sh, cat)
     THEN [i \in DOMAIN next |->
             IF i = pIndex THEN next[i]
             ELSE [next[i] EXCEPT
                     !.categories = setOrDelete(next[i].categories, cat, rarity)]]
     ELSE next

\* Variant: the last profile is removed, whatever the index.
removeAt_last(ps, i) == SubSeq(ps, 1, Len(ps) - 1)

\* onRemove: profiles.filter((_, j) => j !== i)
removeAt(ps, i) == [j \in 1..(Len(ps) - 1) |-> IF j < i THEN ps[j] ELSE ps[j + 1]]

----------------------------------------------------------------------------
(* ShareablePicker *)

toggle(value, cat) ==
  IF Includes(value, cat)
  THEN SelectSeq(value, LAMBDA c : c # cat)
  ELSE Append(value, cat)

----------------------------------------------------------------------------
(* The profile editor as a state machine *)

NoAction == [op |-> "init", index |-> 0, cat |-> "", rarity |-> ""]

\* What the last user action was.  index, cat and rarity are the arguments
\* of setCategory (rarity "" is the forwarded clear choice); cat is also the
\* category of a membership toggle and index the position removeProfile
\* removed.
Did(op, index, cat, rarity) ==
  [op |-> op, index |-> index, cat |-> cat, rarity |-> rarity]

TplIdle ==
  /\ tplProfile = PROFILE_DEFAULTS
  /\ tplTemplate = PRIORITY_TEMPLATES[1]
  /\ tplBase = PROFILE_DEFAULTS
  /\ tplOut = <<>>

\* The object store is not tracked.
HeapIdle ==
  /\ heap = <<>>
  /\ hProfiles = <<>>
  /\ hLast = "init"

\* No response is being parsed.
ParseIdle ==
  /\ raw = JUndef
  /\ parsed = JUndef

\* OrbsEditor as mounted: no orbs, no dialog open, the form at its defaults.
OrbsIdle ==
  /\ orbs = <<>>
  /\ importError = JNull
  /\ dialog = "none"
  /\ form = [type |-> "Flame", set |-> "Lucifer", rarity |-> "Rare",
             value |-> 0, level |-> 0]
  /\ editingIndex = 0
  /\ oLast = [op |-> "init"]

\* Home as mounted: no optimize request made.
RunIdle ==
  /\ loading = FALSE
  /\ error = JNull
  /\ resp = JNull
  /\ pending = <<>>
  /\ runs = 0
  /\ rLast = [op |-> "init"]

\* Nothing is saved and no persistence call has been made.
PersistIdle ==
  /\ storage = JNull
  /\ pLast = [op |-> "init", n |-> 0]

\* No slot count has been looked up.
SlotsIdle ==
  /\ slotValue = EmptyMap
  /\ slotRarity = ""
  /\ slotOut = [op |-> "init"]

AuxIdle ==
  HeapIdle /\ ParseIdle /\ OrbsIdle /\ RunIdle /\ PersistIdle /\ SlotsIdle

Init ==
  /\ editor \in {"templates", "plain"}
  /\ profiles = <<>>
  /\ shareable = <<>>
  /\ last = NoAction
  /\ TplIdle
  /\ AuxIdle

AddProfile ==
  /\ Len(profiles) < MaxProfiles
  /\ profiles' = Append(profiles, IF editor = "templates" THEN blank ELSE blankPlain)
  /\ last' = Did("addProfile", 0, "", "")
  /\ UNCHANGED <<editor, shareable, tplVars, auxVars>>

RemoveProfile ==
  \E i \in DOMAIN profiles :
    /\ profiles' = removeAt(profiles, i)
    /\ last' = Did("removeProfile", i, "", "")
    /\ UNCHANGED <<editor, shareable, tplVars, auxVars>>

SetCategory ==
  \E i \in DOMAIN profiles, cat \in Cats, val \in SelectValues :
    LET rarity == onValueChange(val)
    IN /\ profiles' = IF editor = "templates"
                      THEN handleSetCategory(profiles, shareable, i, cat, rarity)
                      ELSE handleSetCategoryPlain(profiles, shareable, i, cat, rarity)
       /\ last' = Did("setCategory", i, cat, rarity)
       /\ UNCHANGED <<editor, shareable, tplVars, auxVars>>

ApplyTemplate ==
  \E i \in DOMAIN profiles, id \in PickedIds :
    /\ editor = "templates"
    /\ FindTemplate(id) # 0
    /\ profiles' = update(profiles, i, handleApply(profiles[i], id))
    /\ last' = Did("applyTemplate", 0, "", "")
    /\ UNCHANGED <<editor, shareable, tplVars, auxVars>>

ApplyTemplateToAll ==
  \E id \in PickedIds :
    /\ editor = "templates"
    /\ FindTemplate(id) # 0
    /\ profiles' = applyTemplateToAll(profiles, id)
    /\ last' = Did("applyTemplateToAll", 0, "", "")
    /\ UNCHANGED <<editor, shareable, tplVars, auxVars>>

\* Variant: a category that becomes shareable is reconciled at once, every
\* profile taking the first profile's setting.
ToggleShareable_reconcile ==
  \E cat \in Cats :
    /\ shareable' = toggle(shareable, cat)
    /\ profiles' =
         IF Includes(shareable, cat) \/ profiles = <<>> THEN profiles
         ELSE [i \in DOMAIN profiles |->
                 [profiles[i] EXCEPT !.categories =
                    IF cat \in DOMAIN profiles[1].categories
                    THEN MapSet(@, cat, profiles[1].categories[cat])
                    ELSE MapDel(@, cat)]]
    /\ last' = Did("toggleShareable", 0, cat, "")
    /\ UNCHANGED <<editor, tplVars, auxVars>>

ToggleShareable ==
  \E cat \in Cats :
    /\ shareable' = toggle(shareable, cat)
    /\ last' = Did("toggleShareable", 0, cat, "")
    /\ UNCHANGED <<editor, profiles, tplVars, auxVars>>

Next ==
  \/ AddProfile
  \/ RemoveProfile
  \/ SetCategory
  \/ ApplyTemplate
  \/ ApplyTemplateToAll
  \/ ToggleShareable

Spec == Init /\ [][Next]_vars

----------------------------------------------------------------------------
(* Properties of setCategory and of the shareable set (checked under Spec) *)

HasCat(p, c) == c \in DOMAIN p.categories

\* Profiles p and q have the same setting for category c: the same value, or
\* the key absent in both.
SameSetting(p, q, c) ==
  /\ HasCat(p, c) <=> HasCat(q, c)
  /\ HasCat(p, c) => p.categories[c] = q.categories[c]

\* All profiles of the list ps agree on category c.
AgreeOn(ps, c) == \A j, k \in DOMAIN ps : SameSetting(ps[j], ps[k], c)

\* The state is the result of a setCategory on a category that is shareable.
AfterSharedSet == last.op = "setCategory" /\ Includes(shareable, last.cat)

\* C1.  After setCategory(i, cat, r) with cat shareable, every profile j has
\* categories[cat] = r when r is a rarity, and every profile j lacks the key
\* cat when r is the clear choice.
C1_Propagation ==
  AfterSharedSet =>
    \A j \in DOMAIN profiles :
      IF last.rarity = ""
      THEN ~HasCat(profiles[j], last.cat)
      ELSE HasCat(profiles[j], last.cat)
           /\ profiles[j].categories[last.cat] = last.rarity

\* C2.  A setCategory(i, cat, r) on a category that is not shareable leaves
\* every profile j # i unchanged in all fields, and changes in profile i
\* nothing but the entry categories[cat].
C2_Isolation ==
  [][(last'.op = "setCategory" /\ ~Includes(shareable, last'.cat)) =>
       /\ DOMAIN profiles' = DOMAIN profiles
       /\ \A j \in DOMAIN profiles :
            IF j # last'.index
            THEN profiles'[j] = profiles[j]
            ELSE /\ DOMAIN profiles'[j] = DOMAIN profiles[j]
                 /\ \A f \in DOMAIN profiles[j] \ {"categories"} :
                      profiles'[j][f] = profiles[j][f]
                 /\ \A c \in ((DOMAIN profiles[j].categories)
                               \cup (DOMAIN profiles'[j].categories)) \ {last'.cat} :
                      SameSetting(profiles'[j], profiles[j], c)
    ]_vars

\* C2 witness: a non-shareable category was just set in one of two profiles,
\* and the other profile holds a different setting for it.
C2_Witness ==
  /\ last.op = "setCategory"
  /\ ~Includes(shareable, last.cat)
  /\ Len(profiles) >= 2
  /\ \E j \in DOMAIN profiles :
       j # last.index /\ ~SameSetting(profiles[j], profiles[last.index], last.cat)

\* C3.  After setCategory(i, cat, r) the key cat is absent from profile i's
\* categories when r is the clear choice, and maps to r otherwise.
C3_ClearDeletesKey ==
  last.op = "setCategory" =>
    IF last.rarity = ""
    THEN ~HasCat(profiles[last.index], last.cat)
    ELSE HasCat(profiles[last.index], last.cat)
         /\ profiles[last.index].categories[last.cat] = last.rarity

\* C4.  A setCategory on a shareable category is one step of the profile
\* list: the step takes every profile at once to the same setting for that
\* category and touches nothing else, so no state has it set in some
\* profiles and not yet in the others.
C4_AtomicPropagation ==
  [][(last'.op = "setCategory" /\ Includes(shareable, last'.cat)) =>
       /\ DOMAIN profiles' = DOMAIN profiles
       /\ AgreeOn(profiles', last'.cat)
       /\ \A j \in DOMAIN profiles :
            /\ \A f \in DOMAIN profiles[j] \ {"categories"} :
                 profiles'[j][f] = profiles[j][f]
            /\ \A c \in ((DOMAIN profiles[j].categories)
                          \cup (DOMAIN profiles'[j].categories)) \ {last'.cat} :
                 SameSetting(profiles'[j], profiles[j], c)
    ]_vars

\* C4 witness: a shareable category was just set with at least two profiles
\* in the list, the set profile being the first.
C4_Witness ==
  /\ AfterSharedSet
  /\ Len(profiles) >= 2
  /\ last.index = 1
  /\ HasCat(profiles[2], last.cat)

\* All profiles agree on every category that is currently shareable.
ShareableConsistent ==
  \A c \in Cats : Includes(shareable, c) => AgreeOn(profiles, c)

\* C5 as stated: in every reachable state every shareable category has the
\* same setting in all profiles.
C5_AlwaysConsistent == ShareableConsistent

\* C5 amended.  setCategory, removeProfile and bulk template application
\* keep the agreement: if all profiles agree on every shareable category
\* before such a step, they do after it.
C5_ConsistencyKept ==
  [][(last'.op \in {"setCategory", "removeProfile", "applyTemplateToAll"}
      /\ ShareableConsistent) => ShareableConsistent']_vars

\* C5 witness: with two profiles holding a value for a shareable category, a
\* setCategory has just acted and the profiles agree.
C5_Witness ==
  /\ last.op = "setCategory"
  /\ Len(profiles) >= 2
  /\ \E c \in Cats :
       /\ Includes(shareable, c)
       /\ \A j \in DOMAIN profiles : HasCat(profiles[j], c)
  /\ ShareableConsistent

\* C6.  Toggling a category in or out of the shareable set leaves the
\* profile list unchanged.
C6_ToggleKeepsProfiles ==
  [][last'.op = "toggleShareable" => profiles' = profiles]_vars

\* C6 witness: a category has just become shareable while two profiles
\* disagree on it.
C6_Witness ==
  /\ last.op = "toggleShareable"
  /\ Includes(shareable, last.cat)
  /\ ~AgreeOn(profiles, last.cat)

----------------------------------------------------------------------------
(* applyTemplateToProfile on drawn inputs, and bulk application to a        *)
(* restored profile list                                                    *)

\* A profile that differs from the defaults in every field.
CustomProfile ==
  [name |-> "P1", weight |-> 3, objective |-> "types-first",
   power |-> 30, epsilon |-> 5,
   categories |-> [Soul |-> "Epic"], set_priority |-> [A |-> 5],
   orb_weights |-> [Flame |-> 7], orb_level_weights |-> [Wind |-> 9]]

ProfileInputs ==
  {PROFILE_DEFAULTS, CustomProfile,
   [CustomProfile EXCEPT !.name = "P2", !.power = 25, !.set_priority = EmptyMap]}

\* The value a drawn template gives each optional field it defines.
TemplateValue ==
  [objective |-> "types-first", power |-> 25, epsilon |-> 3,
   categories |-> [Wings |-> "Mythic"], set_priority |-> [Mammon |-> 4],
   orb_weights |-> EmptyMap, orb_level_weights |-> [Steel |-> 3]]

\* One template per set of defined optional fields, and the built-in ones.
TemplateInputs ==
  {[f \in {"id", "label"} \cup S |->
      IF f \in {"id", "label"} THEN "T" ELSE TemplateValue[f]] :
     S \in SUBSET (DOMAIN TemplateValue)}
  \cup {PRIORITY_TEMPLATES[i] : i \in DOMAIN PRIORITY_TEMPLATES}

BaseInputs ==
  {PROFILE_DEFAULTS,
   [name |-> "Base", weight |-> 2, objective |-> "types-first",
    power |-> 15, epsilon |-> 1,
    categories |-> [Ego |-> "Rare"], set_priority |-> [Leviathan |-> 1],
    orb_weights |-> [Sun |-> 1], orb_level_weights |-> [Earth |-> 1]]}

\* Profile lists restored from the saved state when Home mounts.
SavedLists ==
  {<<>>, <<CustomProfile>>, <<PROFILE_DEFAULTS, CustomProfile>>,
   <<[CustomProfile EXCEPT !.name = "P2", !.weight = 5], CustomProfile>>}

InitTpl ==
  /\ editor = "templates"
  /\ profiles \in SavedLists
  /\ shareable = <<>>
  /\ last = NoAction
  /\ tplProfile \in ProfileInputs
  /\ tplTemplate \in TemplateInputs
  /\ tplBase \in BaseInputs
  /\ tplOut = <<>>
  /\ AuxIdle

\* Apply tplTemplate to the profile, then to the result of the application before.
TplApply ==
  /\ Len(tplOut) < MaxApply
  /\ LET input == IF tplOut = <<>> THEN tplProfile ELSE tplOut[Len(tplOut)]
     IN tplOut' = Append(tplOut, applyTemplateToProfile(input, tplTemplate, tplBase))
  /\ UNCHANGED <<editor, profiles, shareable, last, tplProfile, tplTemplate, tplBase,
               auxVars>>

\* Bulk application with any id the picker can hold.
TplApplyToAll ==
  \E id \in TplIds :
    /\ FindTemplate(id) # 0
    /\ profiles' = applyTemplateToAll(profiles, id)
    /\ last' = Did("applyTemplateToAll", 0, "", "")
    /\ UNCHANGED <<editor, shareable, tplVars, auxVars>>

NextTpl == TplApply \/ TplApplyToAll

SpecTpl == InitTpl /\ [][NextTpl]_vars

----------------------------------------------------------------------------
(* Properties of template application (checked under SpecTpl) *)

PrimitiveFields == {"objective", "power", "epsilon"}

TemplateMapFields == {"categories", "set_priority", "orb_weights", "orb_level_weights"}

\* C7.  Applying the template again to the result of an application changes
\* none of objective, power, epsilon and the four maps.
C7_Idempotent ==
  \A k \in DOMAIN tplOut :
    k >= 2 => \A f \in PrimitiveFields \cup TemplateMapFields :
                tplOut[k][f] = tplOut[k - 1][f]

\* C7 witness: a template that defines neither power nor set_priority has
\* been applied twice to a profile whose power and set_priority differ from
\* the baseline's.
C7_Witness ==
  /\ Len(tplOut) >= 2
  /\ ~Has(tplTemplate, "power") /\ ~Has(tplTemplate, "set_priority")
  /\ tplProfile.power # tplBase.power
  /\ tplProfile.power # tplProfile.epsilon
  /\ tplProfile.set_priority # tplBase.set_priority

\* C8.  Each of the four maps of the result is exactly the template's map
\* when the template defines it, and exactly the baseline's map when it does
\* not, whatever the profile held.
C8_DestructiveMaps ==
  \A k \in DOMAIN tplOut :
    \A f \in TemplateMapFields :
      tplOut[k][f] = IF Has(tplTemplate, f) THEN tplTemplate[f] ELSE tplBase[f]

\* C8 witness: the profile had a set_priority entry, the template has no
\* set_priority, the baseline is the default one and the result's
\* set_priority is empty; the template's categories replaced the profile's.
C8_Witness ==
  /\ tplOut # <<>>
  /\ tplBase = PROFILE_DEFAULTS
  /\ tplProfile.set_priority # EmptyMap
  /\ ~Has(tplTemplate, "set_priority")
  /\ tplOut[1].set_priority = EmptyMap
  /\ Has(tplTemplate, "categories")
  /\ (DOMAIN tplProfile.categories) \ (DOMAIN tplTemplate.categories) # {}

\* C9.  A primitive (objective, power, epsilon) the template does not define
\* has the baseline's value in the result.
C9_OmittedPrimitiveReset ==
  \A k \in DOMAIN tplOut :
    \A f \in PrimitiveFields :
      ~Has(tplTemplate, f) => tplOut[k][f] = tplBase[f]

\* C10.  The result of an application has the profile's name and weight, and
\* bulk application keeps the length of the list and, position by position,
\* each profile's name and weight.
C10_IdentityKept ==
  [][/\ \A k \in DOMAIN tplOut' :
          /\ tplOut'[k].name = tplProfile'.name
          /\ tplOut'[k].weight = tplProfile'.weight
     /\ last'.op = "applyTemplateToAll" =>
          /\ Len(profiles') = Len(profiles)
          /\ \A i \in DOMAIN profiles :
               /\ profiles'[i].name = profiles[i].name
               /\ profiles'[i].weight = profiles[i].weight
    ]_vars

\* C10 witness: a template was applied to a profile whose name and weight
\* differ from the baseline's, and a bulk application has acted on two
\* profiles with different names and weights.
C10_Witness ==
  /\ tplOut # <<>>
  /\ tplProfile.name # tplBase.name /\ tplProfile.weight # tplBase.weight
  /\ last.op = "applyTemplateToAll"
  /\ Len(profiles) = 2
  /\ profiles[1].name # profiles[2].name
  /\ profiles[1].weight # profiles[2].weight
  /\ profiles[1].categories = EmptyMap

----------------------------------------------------------------------------
(* The profile editor over an object store (SpecHeap).                     *)
(*                                                                         *)
(* Here a profile, a template and each of their maps is a JS object held   *)
(* by reference: heap[r] is the object with reference r, and a map-valued  *)
(* field of a profile or template holds the reference of its map.  Two     *)
(* profiles, or a profile and the baseline, can so share one map object,   *)
(* as { ...PROFILE_DEFAULTS } makes them do.  Arrays (the profile list)    *)
(* are rebuilt by every handler and are kept by value.                     *)

\* Most objects the editor allocates before the model stops it.
MaxHeapCells == 6

MapFieldOrder == <<"categories", "set_priority", "orb_weights", "orb_level_weights">>

MapFieldSet == {MapFieldOrder[i] : i \in DOMAIN MapFieldOrder}

\* The object literal obj evaluated on the store h: its map literals are
\* allocated first, then the object itself, which is the last cell.
Store(h, obj) ==
  LET fs == SelectSeq(MapFieldOrder, LAMBDA f : f \in DOMAIN obj)
      refOf(f) == Len(h) + (CHOOSE i \in DOMAIN fs : fs[i] = f)
      cells == [i \in 1..Len(fs) |-> obj[fs[i]]]
      o == [f \in DOMAIN obj |-> IF f \in MapFieldSet THEN refOf(f) ELSE obj[f]]
  IN h \o cells \o <<o>>

\* The module-level objects: PROFILE_DEFAULTS, then PRIORITY_TEMPLATES.
StaticHeap ==
  Store(Store(Store(Store(<<>>, PROFILE_DEFAULTS), PRIORITY_TEMPLATES[1]),
              PRIORITY_TEMPLATES[2]), PRIORITY_TEMPLATES[3])

DefaultsRef == Len(Store(<<>>, PROFILE_DEFAULTS))

\* PRIORITY_TEMPLATES.find((t) => t.id === id), as a reference; 0 when absent
FindTemplateRef(h, id) ==
  IF \E r \in DOMAIN StaticHeap : "id" \in DOMAIN h[r] /\ h[r].id = id
  THEN CHOOSE r \in DOMAIN StaticHeap : "id" \in DOMAIN h[r] /\ h[r].id = id
  ELSE 0

\* A store and a profile list together: what a handler leaves behind.
Mem(h, ps) == [h |-> h, ps |-> ps]

\* Add Profile: [...profiles, { ...blank }], a shallow copy of the defaults
heapAddProfile(h, ps) ==
  Mem(Append(h, h[DefaultsRef]), Append(ps, Len(h) + 1))

\* { ...prof, categories: { ...(prof.categories || {}), [cat]: rarity } }
heapWithCategory(h, ref, cat, rarity) ==
  LET prof == h[ref]
      cats == MapSet(h[prof.categories], cat, rarity)
  IN h \o <<cats, [prof EXCEPT !.categories = Len(h) + 1]>>

RECURSIVE heapPropagate(_, _, _, _, _, _)
\* next.map((prof, i) => i === index ? updated : { ...prof, categories: ... })
heapPropagate(m, i, index, updated, cat, rarity) ==
  IF i > Len(m.ps) THEN m
  ELSE IF i = index
       THEN heapPropagate(Mem(m.h, [m.ps EXCEPT ![i] = updated]),
                          i + 1, index, updated, cat, rarity)
       ELSE LET h2 == heapWithCategory(m.h, m.ps[i], cat, rarity)
            IN heapPropagate(Mem(h2, [m.ps EXCEPT ![i] = Len(h2)]),
                             i + 1, index, updated, cat, rarity)

\* Variant: the rarity is written into the profile's own categories object.
heapSetCategory_inplace(h, ps, sh, index, cat, rarity) ==
  LET ref == h[ps[index]].categories
  IN Mem([h EXCEPT ![ref] = MapSet(@, cat, rarity)], ps)

heapSetCategory(h, ps, sh, index, cat, rarity) ==
  LET h2 == heapWithCategory(h, ps[index], cat, rarity)
      updated == Len(h2)
      next == [ps EXCEPT ![index] = updated]
  IN IF Includes(sh, cat)
     THEN heapPropagate(Mem(h2, next), 1, index, updated, cat, rarity)
     ELSE Mem(h2, next)

\* KvSelectTable addPair / updateValue, then ProfileCard's onChange and update:
\* onChange({ ...value, [field]: { ...value[field], [key]: num } })
heapSetKey(h, ps, index, field, key, num) ==
  LET value == h[ps[index]]
      nextMap == MapSet(h[value[field]], key, num)
      np == [value EXCEPT ![field] = Len(h) + 1]
  IN Mem(h \o <<nextMap, np>>, [ps EXCEPT ![index] = Len(h) + 2])

\* KvSelectTable removeKey: Object.fromEntries(entries.filter(...))
heapRemoveKey(h, ps, index, field, key) ==
  LET value == h[ps[index]]
      nextMap == MapDel(h[value[field]], key)
      np == [value EXCEPT ![field] = Len(h) + 1]
  IN Mem(h \o <<nextMap, np>>, [ps EXCEPT ![index] = Len(h) + 2])

\* applyTemplateToProfile on references: a map the template defines is
\* copied ({ ...tpl.f }), a map it omits is the baseline's own object.
heapApplyTemplate(h, profileRef, tplRef, baseRef) ==
  LET profile == h[profileRef]
      tpl == h[tplRef]
      base == h[baseRef]
      reset == [base EXCEPT !.name = profile.name, !.weight = profile.weight,
                            !.power = profile.power, !.epsilon = profile.epsilon]
      fs == SelectSeq(MapFieldOrder, LAMBDA f : Has(tpl, f))
      copies == [i \in 1..Len(fs) |-> h[tpl[fs[i]]]]
      refOf(f) == Len(h) + (CHOOSE i \in DOMAIN fs : fs[i] = f)
      next == [f \in DOMAIN reset |->
                 IF f \in MapFieldSet
                 THEN IF Has(tpl, f) THEN refOf(f) ELSE reset[f]
                 ELSE IF f \in {"objective", "power", "epsilon"} /\ Has(tpl, f)
                      THEN tpl[f] ELSE reset[f]]
  IN h \o copies \o <<next>>

\* The map fields, keys and numbers the model edits through KvSelectTable.
EditedFields == {"set_priority", "orb_weights"}
EditedKeys == {"Mammon"}
EditedNums == {3}

InitHeap ==
  /\ editor = "templates"
  /\ profiles = <<>>
  /\ shareable \in {<<>>, <<"Soul">>}
  /\ last = NoAction
  /\ TplIdle
  /\ ParseIdle /\ OrbsIdle /\ RunIdle /\ PersistIdle /\ SlotsIdle
  /\ heap = StaticHeap
  /\ hProfiles = <<>>
  /\ hLast = "init"

HeapRoom == Len(heap) - Len(StaticHeap) < MaxHeapCells

HeapFrame == UNCHANGED <<editor, profiles, shareable, last, tplVars,
                         parseVars, orbVars, runVars, persistVars, slotVars>>

HeapAddProfile ==
  /\ HeapRoom
  /\ Len(hProfiles) < MaxProfiles
  /\ LET m == heapAddProfile(heap, hProfiles)
     IN heap' = m.h /\ hProfiles' = m.ps
  /\ hLast' = "addProfile"
  /\ HeapFrame

HeapSetCategory ==
  \E i \in DOMAIN hProfiles, cat \in Cats, val \in SelectValues :
    /\ HeapRoom
    /\ LET m == heapSetCategory(heap, hProfiles, shareable, i, cat, onValueChange(val))
       IN heap' = m.h /\ hProfiles' = m.ps
    /\ hLast' = "setCategory"
    /\ HeapFrame

HeapSetKey ==
  \E i \in DOMAIN hProfiles, f \in EditedFields, k \in EditedKeys, n \in EditedNums :
    /\ HeapRoom
    /\ LET m == heapSetKey(heap, hProfiles, i, f, k, n)
       IN heap' = m.h /\ hProfiles' = m.ps
    /\ hLast' = "setKey"
    /\ HeapFrame

HeapRemoveKey ==
  \E i \in DOMAIN hProfiles, f \in EditedFields :
    \E k \in DOMAIN heap[heap[hProfiles[i]][f]] :
      /\ HeapRoom
      /\ LET m == heapRemoveKey(heap, hProfiles, i, f, k)
         IN heap' = m.h /\ hProfiles' = m.ps
      /\ hLast' = "removeKey"
      /\ HeapFrame

\* ProfileCardWithTemplates handleApply, then onChange and update.
HeapApplyTemplate ==
  \E i \in DOMAIN hProfiles, id \in PickedIds :
    LET tplRef == FindTemplateRef(heap, id)
    IN /\ HeapRoom
       /\ tplRef # 0
       /\ heap' = heapApplyTemplate(heap, hProfiles[i], tplRef, DefaultsRef)
       /\ hProfiles' = [hProfiles EXCEPT ![i] = Len(heap')]
       /\ hLast' = "applyTemplate"
       /\ HeapFrame

HeapRemoveProfile ==
  \E i \in DOMAIN hProfiles :
    /\ hProfiles' = removeAt(hProfiles, i)
    /\ hLast' = "removeProfile"
    /\ UNCHANGED heap
    /\ HeapFrame

NextHeap ==
  \/ HeapAddProfile
  \/ HeapSetCategory
  \/ HeapSetKey
  \/ HeapRemoveKey
  \/ HeapApplyTemplate
  \/ HeapRemoveProfile

SpecHeap == InitHeap /\ [][NextHeap]_vars

----------------------------------------------------------------------------
(* Purity of the editor's operations (checked under SpecHeap) *)

\* The module-level objects are what they were when the module was loaded,
\* and the maps of the baseline are empty.
StaticIntact ==
  /\ \A r \in DOMAIN StaticHeap : heap[r] = StaticHeap[r]
  /\ \A f \in MapFieldSet : heap[heap[DefaultsRef][f]] = EmptyMap

\* No step writes to an object that existed before it.
NoObjectWritten == \A r \in DOMAIN heap : heap'[r] = heap[r]

\* C11: applyTemplate and every other editor operation (setCategory, map
\* edits, addProfile) allocate their results and write to no existing
\* object: the profile they are given, the built-in templates and the
\* baseline defaults stay as they are, and the baseline's maps stay empty
\* after any sequence of operations.
C11_NoMutation == [] StaticIntact /\ [][NoObjectWritten]_vars

\* A listed profile still shares its set_priority object with the baseline
\* after its categories have been set through the editor.
C11_Witness ==
  /\ hLast = "setCategory"
  /\ \E i \in DOMAIN hProfiles :
       /\ heap[hProfiles[i]].set_priority = heap[DefaultsRef].set_priority
       /\ heap[hProfiles[i]].categories # heap[DefaultsRef].categories
       /\ heap[heap[hProfiles[i]].categories] # EmptyMap

----------------------------------------------------------------------------
(* The result normalizer (SpecParse): toOrbIn and parseResultsFromRaw *)

\* Number(str) for the strings the model draws: a decimal numeral is its
\* number, the empty or blank string is 0, anything else is NaN.
StringToNumber(str) ==
  CASE str \in {"", "  "} -> JNum(0)
    [] str = "5" -> JNum(5)
    [] str = " 5 " -> JNum(5)
    [] str = "12" -> JNum(12)
    [] OTHER -> JInf

RECURSIVE ToNumber(_)
\* Number(x).  A non-finite result (NaN, Infinity) is JInf.
ToNumber(x) ==
  CASE x.t = "undef" -> JInf
    [] x.t = "null" -> JNum(0)
    [] x.t = "num" -> x
    [] x.t = "inf" -> JInf
    [] x.t = "bool" -> IF x.b THEN JNum(1) ELSE JNum(0)
    [] x.t = "str" -> StringToNumber(x.s)
    [] x.t = "arr" ->
         IF Len(x.a) = 0 THEN JNum(0)
         ELSE IF Len(x.a) > 1 THEN JInf
         ELSE IF x.a[1].t \in {"undef", "null"} THEN JNum(0)
         ELSE IF x.a[1].t \in {"num", "inf", "str", "arr"} THEN ToNumber(x.a[1])
         ELSE JInf
    [] OTHER -> JInf

\* Number.isFinite(n) of a number
IsFinite(n) == n.t = "num"

\* String(x) for the values the model puts where a string is read: a string
\* or, after ??, nothing else.
JsString(x) ==
  CASE x.t = "str" -> x.s
    [] x.t = "undef" -> "undefined"
    [] x.t = "null" -> "null"
    [] x.t = "bool" -> IF x.b THEN "true" ELSE "false"
    [] x.t = "num" /\ x.n = 5 -> "5"
    [] x.t = "num" /\ x.n = 0 -> "0"
    [] OTHER -> "[object Object]"

\* String.prototype.trim for the strings the model draws
Trim(str) ==
  CASE str = "  " -> ""
    [] str = " Flame " -> "Flame"
    [] str = " 5 " -> "5"
    [] OTHER -> str

\* Object.entries(x): the own properties of an object in insertion order,
\* the indexed elements of an array; nothing for a primitive the model draws.
IndexKey(i) == CASE i = 1 -> "0" [] i = 2 -> "1" [] i = 3 -> "2" [] OTHER -> "n"

Entries(x) ==
  CASE x.t = "obj" -> x.o
    [] x.t = "arr" -> [i \in DOMAIN x.a |-> Prop(IndexKey(i), x.a[i])]
    [] OTHER -> <<>>

toOrbIn(orbRaw) ==
  LET type == Trim(JsString(Coalesce(Get(orbRaw, "type"), JStr(""))))
      set == Trim(JsString(Coalesce(Coalesce(Get(orbRaw, "set"), Get(orbRaw, "set_name")),
                                    JStr(""))))
      rarity == Trim(JsString(Coalesce(Get(orbRaw, "rarity"), JStr("Rare"))))
      value == IF IsFinite(ToNumber(Get(orbRaw, "value")))
               THEN ToNumber(Get(orbRaw, "value")).n ELSE 0
      level == IF IsFinite(ToNumber(Get(orbRaw, "level")))
               THEN ToNumber(Get(orbRaw, "level")).n ELSE 0
  IN [type |-> IF type = "" THEN "Unknown" ELSE type,
      set |-> IF set = "" THEN "Unknown" ELSE set,
      rarity |-> IF rarity = "" THEN "Rare" ELSE rarity,
      value |-> value,
      level |-> level]

\* typeof x === "number" ? x : null
NumberOrNull(x) == IF TypeofNumber(x) THEN x ELSE JNull

\* for (const [cat, arr] of Object.entries(src))
\*   assignments[String(cat)] = Array.isArray(arr) ? arr.map(toOrbIn) : [];
walkAssignments(src) ==
  LET es == Entries(src)
  IN [i \in DOMAIN es |->
        Prop(es[i].k, IF es[i].v.t = "arr"
                      THEN [j \in DOMAIN es[i].v.a |-> toOrbIn(es[i].v.a[j])]
                      ELSE <<>>)]

ParsedProfile(name, meta, assignments) ==
  [name |-> name,
   score |-> NumberOrNull(Get(meta, "score")),
   set_score |-> NumberOrNull(Get(meta, "set_score")),
   orb_score |-> NumberOrNull(Get(meta, "orb_score")),
   assignments |-> assignments]

ParsedResult(combined_score, profilesOut) ==
  [t |-> "result", combined_score |-> combined_score, profiles |-> profilesOut]

\* The canonical branch: raw.profiles is an array.
parseCanonical(array) ==
  [i \in DOMAIN array |->
     LET el == array[i]
         src == IF Truthy(Get(el, "assignments")) /\ TypeofObject(Get(el, "assignments"))
                THEN Get(el, "assignments") ELSE JObj(<<>>)
     IN ParsedProfile(JsString(Coalesce(Get(el, "name"), JStr(""))), el,
                      walkAssignments(src))]

\* Old shape A: raw.assign is an object of profiles.
parseLegacyA(assign, rawProfiles) ==
  LET scores == IF Truthy(rawProfiles) /\ TypeofObject(rawProfiles)
                THEN rawProfiles ELSE JObj(<<>>)
      es == Entries(assign)
  IN [i \in DOMAIN es |->
        LET catMap == es[i].v
            found == Get(scores, es[i].k)
            meta == IF Truthy(found) THEN found ELSE JObj(<<>>)
        IN ParsedProfile(es[i].k, meta,
                         IF Truthy(catMap) /\ TypeofObject(catMap)
                         THEN walkAssignments(catMap) ELSE <<>>)]

\* Old shape B: raw.profiles is an object whose values carry `loadout`.
parseLegacyB(rawProfiles) ==
  LET es == Entries(rawProfiles)
  IN [i \in DOMAIN es |->
        LET meta == es[i].v
            loadout == IF Truthy(Get(meta, "loadout")) /\ TypeofObject(Get(meta, "loadout"))
                       THEN Get(meta, "loadout") ELSE JObj(<<>>)
        IN ParsedProfile(es[i].k, meta, walkAssignments(loadout))]

\* Variant: the `assign` shape is tried before the array shape.
parseResultsFromRaw_assignFirst(rawArg) ==
  IF ~Truthy(rawArg) \/ ~TypeofObject(rawArg) THEN JNull
  ELSE LET combined_score == NumberOrNull(Get(rawArg, "combined_score"))
           rawProfiles == Get(rawArg, "profiles")
           assign == Get(rawArg, "assign")
       IN IF Truthy(assign) /\ TypeofObject(assign)
          THEN ParsedResult(combined_score, parseLegacyA(assign, rawProfiles))
          ELSE IF rawProfiles.t = "arr"
          THEN ParsedResult(combined_score, parseCanonical(rawProfiles.a))
          ELSE IF Truthy(rawProfiles) /\ TypeofObject(rawProfiles)
          THEN ParsedResult(combined_score, parseLegacyB(rawProfiles))
          ELSE JNull

\* Variant: a result without profiles is reported as no result.
parseResultsFromRaw_emptyNull(rawArg) ==
  IF ~Truthy(rawArg) \/ ~TypeofObject(rawArg) THEN JNull
  ELSE LET combined_score == NumberOrNull(Get(rawArg, "combined_score"))
           rawProfiles == Get(rawArg, "profiles")
           assign == Get(rawArg, "assign")
       IN IF rawProfiles.t = "arr"
          THEN IF rawProfiles.a = <<>> THEN JNull
               ELSE ParsedResult(combined_score, parseCanonical(rawProfiles.a))
          ELSE IF Truthy(assign) /\ TypeofObject(assign)
          THEN ParsedResult(combined_score, parseLegacyA(assign, rawProfiles))
          ELSE IF Truthy(rawProfiles) /\ TypeofObject(rawProfiles)
          THEN ParsedResult(combined_score, parseLegacyB(rawProfiles))
          ELSE JNull

\* Variant: the `loadout` shape is tried before the `assign` shape.
parseResultsFromRaw_loadoutFirst(rawArg) ==
  IF ~Truthy(rawArg) \/ ~TypeofObject(rawArg) THEN JNull
  ELSE LET combined_score == NumberOrNull(Get(rawArg, "combined_score"))
           rawProfiles == Get(rawArg, "profiles")
           assign == Get(rawArg, "assign")
       IN IF rawProfiles.t = "arr"
          THEN ParsedResult(combined_score, parseCanonical(rawProfiles.a))
          ELSE IF Truthy(rawProfiles) /\ TypeofObject(rawProfiles)
          THEN ParsedResult(combined_score, parseLegacyB(rawProfiles))
          ELSE IF Truthy(assign) /\ TypeofObject(assign)
          THEN ParsedResult(combined_score, parseLegacyA(assign, rawProfiles))
          ELSE JNull

parseResultsFromRaw(rawArg) ==
  IF ~Truthy(rawArg) \/ ~TypeofObject(rawArg) THEN JNull
  ELSE LET combined_score == NumberOrNull(Get(rawArg, "combined_score"))
           rawProfiles == Get(rawArg, "profiles")
           assign == Get(rawArg, "assign")
       IN IF rawProfiles.t = "arr"
          THEN ParsedResult(combined_score, parseCanonical(rawProfiles.a))
          ELSE IF Truthy(assign) /\ TypeofObject(assign)
          THEN ParsedResult(combined_score, parseLegacyA(assign, rawProfiles))
          ELSE IF Truthy(rawProfiles) /\ TypeofObject(rawProfiles)
          THEN ParsedResult(combined_score, parseLegacyB(rawProfiles))
          ELSE JNull

(* Inputs *)

\* { k1: v1, ... } with the properties whose value is undefined left out
ObjOf(entries) == JObj(SelectSeq(entries, LAMBDA e : e.v.t # "undef"))

\* What a raw orb may hold in `value` and in `level`.
NumericFieldInputs ==
  {JUndef, JNull, JNum(7), JInf, JStr("5"), JStr("abc"), JBool(TRUE), JObj(<<>>)}

RawOrb(type, set, rarity, value, level) ==
  ObjOf(<<Prop("type", type), Prop("set", set), Prop("rarity", rarity),
          Prop("value", value), Prop("level", level)>>)

\* Raw orbs that differ in their numeric fields only.
NumericOrbInputs ==
  {RawOrb(JStr("Flame"), JStr("Lucifer"), JStr("Epic"), v, l) :
     v \in NumericFieldInputs, l \in NumericFieldInputs}

OrbA == RawOrb(JStr("Flame"), JStr("Lucifer"), JStr("Rare"), JNum(0), JNum(1))

OrbB == RawOrb(JStr("  "), JUndef, JUndef, JNum(12), JNum(8))

\* One raw orb placed in each of the three shapes.
WrapCanonical(o) ==
  JObj(<<Prop("profiles",
              JArr(<<JObj(<<Prop("name", JStr("P1")),
                            Prop("assignments", JObj(<<Prop("Soul", JArr(<<o>>))>>))>>)>>))>>)

WrapLegacyA(o) ==
  JObj(<<Prop("assign", JObj(<<Prop("P1", JObj(<<Prop("Soul", JArr(<<o>>))>>))>>))>>)

WrapLegacyB(o) ==
  JObj(<<Prop("profiles",
              JObj(<<Prop("P1", JObj(<<Prop("loadout",
                                           JObj(<<Prop("Soul", JArr(<<o>>))>>))>>))>>))>>)

\* Elements of a canonical `profiles` array; each also carries a `loadout`.
ElemA ==
  JObj(<<Prop("name", JStr("P1")), Prop("score", JNum(3)),
         Prop("assignments", JObj(<<Prop("Soul", JArr(<<OrbA>>)), Prop("Ego", JNull)>>)),
         Prop("loadout", JObj(<<Prop("Wings", JArr(<<OrbB>>))>>))>>)

ElemB ==
  JObj(<<Prop("set_score", JStr("x")), Prop("assignments", JStr("bad")),
         Prop("loadout", JObj(<<Prop("Beast", JArr(<<OrbA, OrbB>>))>>))>>)

\* Values of a legacy `profiles` object: scores, and a `loadout`.
MetaA ==
  JObj(<<Prop("score", JNum(9)), Prop("orb_score", JStr("4")),
         Prop("loadout", JObj(<<Prop("Wings", JArr(<<OrbB>>))>>))>>)

MetaB == JObj(<<Prop("set_score", JNum(2))>>)

\* Values of a legacy `assign` object.
CatMapA == JObj(<<Prop("Soul", JArr(<<OrbA, JNull>>)), Prop("Wagon", JStr("none"))>>)

CatMapB == JObj(<<Prop("Ego", JArr(<<OrbB>>))>>)

ProfilesFieldInputs ==
  {JUndef, JNull, JNum(3), JStr("x"),
   JArr(<<>>), JArr(<<ElemA>>), JArr(<<ElemB, ElemA>>), JArr(<<JNull, ElemA>>),
   JObj(<<>>), JObj(<<Prop("P1", MetaA)>>),
   JObj(<<Prop("P2", MetaB), Prop("P1", MetaA)>>), JObj(<<Prop("P3", JNull)>>)}

AssignFieldInputs ==
  {JUndef, JNull, JStr("x"), JObj(<<>>), JObj(<<Prop("P1", CatMapA)>>),
   JObj(<<Prop("P2", CatMapB), Prop("P1", CatMapA)>>),
   JObj(<<Prop("P4", JNull)>>), JArr(<<CatMapB>>)}

CombinedScoreInputs == {JUndef, JNum(12), JStr("12")}

RawInputs ==
  {JUndef, JNull, JNum(5), JStr("{}"), JBool(TRUE), JArr(<<>>)}
  \cup {ObjOf(<<Prop("combined_score", c), Prop("profiles", ps), Prop("assign", a)>>) :
          c \in CombinedScoreInputs, ps \in ProfilesFieldInputs, a \in AssignFieldInputs}
  \cup {WrapCanonical(o) : o \in NumericOrbInputs}
  \cup {WrapLegacyA(o) : o \in NumericOrbInputs}
  \cup {WrapLegacyB(o) : o \in NumericOrbInputs}

InitParse ==
  /\ editor = "templates"
  /\ profiles = <<>>
  /\ shareable = <<>>
  /\ last = NoAction
  /\ TplIdle
  /\ HeapIdle /\ OrbsIdle /\ RunIdle /\ PersistIdle /\ SlotsIdle
  /\ raw \in RawInputs
  /\ parsed = JUndef

\* ResultViewer: parseResultsFromRaw(data.result?.raw)
Parse ==
  /\ parsed = JUndef
  /\ parsed' = parseResultsFromRaw(raw)
  /\ UNCHANGED <<editor, profiles, shareable, last, tplVars,
                 heapVars, orbVars, runVars, persistVars, slotVars, raw>>

NextParse == Parse

SpecParse == InitParse /\ [][NextParse]_vars

----------------------------------------------------------------------------
(* Properties of the result normalizer (checked under SpecParse) *)

\* parseResultsFromRaw has returned.
Called == parsed.t # "undef"

\* A JS object in the sense of `x && typeof x === "object"`.
IsObject(x) == x.t \in {"obj", "arr"}

KeysOf(x) == [i \in DOMAIN Entries(x) |-> Entries(x)[i].k]

\* x without its own property k
Without(x, k) ==
  IF x.t = "obj" THEN JObj(SelectSeq(x.o, LAMBDA e : e.k # k)) ELSE x

\* x with its own property k, when it has one, replaced by v
Replace(x, k, v) ==
  IF x.t = "obj"
  THEN JObj([i \in DOMAIN x.o |-> IF x.o[i].k = k THEN Prop(k, v) ELSE x.o[i]])
  ELSE x

\* raw without `assign` and without the `loadout` of any element of the array
StripLegacy(r) ==
  LET arr == Get(r, "profiles").a
  IN Replace(Without(r, "assign"), "profiles",
             JArr([i \in DOMAIN arr |-> Without(arr[i], "loadout")]))

\* The categories an assignments source yields, in order.
SourceKeys(src) == IF IsObject(src) THEN KeysOf(src) ELSE <<>>

\* The number of orbs each category of an assignments source yields.
SourceSizes(src) ==
  IF IsObject(src)
  THEN [i \in DOMAIN Entries(src) |->
          IF Entries(src)[i].v.t = "arr" THEN Len(Entries(src)[i].v.a) ELSE 0]
  ELSE <<>>

OutKeys(assignments) == [i \in DOMAIN assignments |-> assignments[i].k]

OutSizes(assignments) == [i \in DOMAIN assignments |-> Len(assignments[i].v)]

\* C12: when raw.profiles is an array the result has one profile per
\* element, in array order, its assignments being those of the element's
\* `assignments`; an `assign` key on raw and a `loadout` key on an element
\* contribute nothing: the result is that of raw without them.
C12_CanonicalOnly ==
  (Called /\ IsObject(raw) /\ Get(raw, "profiles").t = "arr") =>
    LET arr == Get(raw, "profiles").a
    IN /\ parsed.t = "result"
       /\ Len(parsed.profiles) = Len(arr)
       /\ \A i \in DOMAIN arr :
            /\ parsed.profiles[i].name =
                 (IF Get(arr[i], "name").t = "str" THEN Get(arr[i], "name").s ELSE "")
            /\ OutKeys(parsed.profiles[i].assignments)
                 = SourceKeys(Get(arr[i], "assignments"))
            /\ OutSizes(parsed.profiles[i].assignments)
                 = SourceSizes(Get(arr[i], "assignments"))
       /\ parsed = parseResultsFromRaw(StripLegacy(raw))

\* An array of two elements carrying `loadout`, next to an `assign` object.
C12_Witness ==
  /\ Called
  /\ Get(raw, "profiles") = JArr(<<ElemB, ElemA>>)
  /\ Get(raw, "assign") = JObj(<<Prop("P1", CatMapA)>>)
  /\ Len(parsed.profiles) = 2
  /\ parsed.profiles[2].assignments # <<>>

\* No shape matches: raw is no object, or it has neither an array or object
\* `profiles` nor an object `assign`.
NoShape(r) ==
  \/ ~IsObject(r)
  \/ ~IsObject(Get(r, "profiles")) /\ ~IsObject(Get(r, "assign"))

\* C13: the result is null exactly when no shape matches; {} gives null and
\* {profiles: []} gives {combined_score: null, profiles: []}.
C13_NullIffNoShape ==
  Called =>
    /\ (parsed = JNull) <=> NoShape(raw)
    /\ raw = JObj(<<>>) => parsed = JNull
    /\ raw = JObj(<<Prop("profiles", JArr(<<>>))>>) => parsed = ParsedResult(JNull, <<>>)

\* {profiles: []} has been parsed, and to a result.
C13_Witness ==
  /\ Called
  /\ raw = JObj(<<Prop("profiles", JArr(<<>>))>>)
  /\ parsed.t = "result"

\* raw.profiles (an object here) without the `loadout` of any of its values
StripLoadout(r) ==
  LET ps == Get(r, "profiles")
  IN IF ps.t = "obj"
     THEN Replace(r, "profiles",
                  JObj([i \in DOMAIN ps.o |->
                          Prop(ps.o[i].k, Without(ps.o[i].v, "loadout"))]))
     ELSE r

\* The score raw.profiles holds for a name: null when the name is missing.
ScoreLookup(r, name, field) ==
  LET x == Get(Get(Get(r, "profiles"), name), field)
  IN IF x.t \in {"num", "inf"} THEN x ELSE JNull

\* C14: when raw.profiles is no array and raw.assign is an object, the
\* result's profiles are the keys of raw.assign in order, with assignments
\* from raw.assign and never from `loadout`; raw.profiles serves only as a
\* score lookup by name, the scores being null when the name is missing.
C14_LegacyAFirst ==
  (Called /\ IsObject(raw) /\ Get(raw, "profiles").t # "arr"
          /\ IsObject(Get(raw, "assign"))) =>
    LET assign == Get(raw, "assign")
    IN /\ parsed.t = "result"
       /\ [i \in DOMAIN parsed.profiles |-> parsed.profiles[i].name] = KeysOf(assign)
       /\ \A i \in DOMAIN parsed.profiles :
            LET p == parsed.profiles[i]
            IN /\ OutKeys(p.assignments) = SourceKeys(Entries(assign)[i].v)
               /\ OutSizes(p.assignments) = SourceSizes(Entries(assign)[i].v)
               /\ p.score = ScoreLookup(raw, p.name, "score")
               /\ p.set_score = ScoreLookup(raw, p.name, "set_score")
               /\ p.orb_score = ScoreLookup(raw, p.name, "orb_score")
       /\ parsed = parseResultsFromRaw(StripLoadout(raw))

\* `assign` names P2 and P1, `profiles` is an object that knows only P1 and
\* carries a `loadout` for it.
C14_Witness ==
  /\ Called
  /\ Get(raw, "assign") = JObj(<<Prop("P2", CatMapB), Prop("P1", CatMapA)>>)
  /\ Get(raw, "profiles") = JObj(<<Prop("P1", MetaA)>>)
  /\ parsed.profiles[1].score = JNull
  /\ parsed.profiles[2].score = JNum(9)

\* A numeric field as the claim reads it: the raw field when that is a
\* finite number, 0 otherwise.
FiniteOrZero(x) == IF x.t = "num" THEN x.n ELSE 0

\* C15: in each of the three shapes, an output orb's value and level are
\* the raw field when it is a finite number and 0 when it is anything else
\* (missing, null, a string such as "5", a boolean, an object).
C15_FiniteOrZero ==
  Called =>
    \A o \in NumericOrbInputs :
      raw \in {WrapCanonical(o), WrapLegacyA(o), WrapLegacyB(o)} =>
        LET out == parsed.profiles[1].assignments[1].v[1]
        IN /\ out.value = FiniteOrZero(Get(o, "value"))
           /\ out.level = FiniteOrZero(Get(o, "level"))

----------------------------------------------------------------------------
(* The orb list and its editor (SpecOrbs) *)

\* Most orbs the list holds after a manual add.
MaxOrbs == 2

RARITY_LEVEL_CAP ==
  [Common |-> 3, Magic |-> 3, Rare |-> 6, Epic |-> 6, Legendary |-> 9, Mythic |-> 9]

\* clamp(n, min, max) = Math.max(min, Math.min(max, n))
clamp(n, min, max) ==
  LET m == IF max < n THEN max ELSE n
  IN IF min > m THEN min ELSE m

\* clamp(n) with the defaults min = 0, max = Number.POSITIVE_INFINITY
clampDefault(n) == IF 0 > n THEN 0 ELSE n

Orb(type, set, rarity, value, level) ==
  [type |-> type, set |-> set, rarity |-> rarity, value |-> value, level |-> level]

\* An OrbIn as opposed to null.
JOrb(orb) == [t |-> "orb", orb |-> orb]

normalizeOrb(orbRaw) ==
  LET type == Trim(JsString(Coalesce(Get(orbRaw, "type"), JStr(""))))
      set == Trim(JsString(Coalesce(Coalesce(Get(orbRaw, "set"), Get(orbRaw, "set")),
                                    JStr(""))))
      rarity == Trim(JsString(Coalesce(Get(orbRaw, "rarity"), JStr("Rare"))))
      valueNum == ToNumber(Coalesce(Get(orbRaw, "value"), JNum(0)))
      levelNum == ToNumber(Coalesce(Get(orbRaw, "level"), JNum(0)))
  IN IF type = "" \/ set = "" THEN JNull
     ELSE JOrb(Orb(type, set, rarity,
                   IF IsFinite(valueNum) THEN clampDefault(valueNum.n) ELSE 0,
                   clamp(IF IsFinite(levelNum) THEN levelNum.n ELSE 0, 0, 9)))

\* for (const item of arr) { const o = normalizeOrb(item); if (o) normalized.push(o); }
normalizeAll(arr) ==
  LET os == SelectSeq([i \in DOMAIN arr |-> normalizeOrb(arr[i])], LAMBDA o : o.t = "orb")
  IN [i \in DOMAIN os |-> os[i].orb]

\* The import text: JSON.parse throws on it, or returns data.
BadText == [ok |-> FALSE]

Text(data) == [ok |-> TRUE, data |-> data]

\* What parseAndReplaceFromText leaves in orbs, importError and openImport.
Imported(list, err, dlg) == [orbs |-> list, importError |-> err, dialog |-> dlg]

\* Variant: the list is replaced before the normalized items are counted.
parseAndReplaceFromText_eager(list, text) ==
  IF ~text.ok THEN Imported(list, JStr("Unexpected token"), "import")
  ELSE LET data == text.data
           shapeOk == data.t = "arr" \/ (Truthy(data) /\ Get(data, "orbs").t = "arr")
           arr == IF data.t = "arr" THEN data.a ELSE Get(data, "orbs").a
       IN IF ~shapeOk
          THEN Imported(list,
                 JStr("JSON must be an array of orbs or an object with { orbs: [...] }"),
                 "import")
          ELSE IF Len(normalizeAll(arr)) = 0
          THEN Imported(<<>>, JStr("No valid orbs found in the JSON."), "import")
          ELSE Imported(normalizeAll(arr), JNull, "none")

parseAndReplaceFromText(list, text) ==
  IF ~text.ok THEN Imported(list, JStr("Unexpected token"), "import")
  ELSE LET data == text.data
           shapeOk == data.t = "arr" \/ (Truthy(data) /\ Get(data, "orbs").t = "arr")
           arr == IF data.t = "arr" THEN data.a ELSE Get(data, "orbs").a
       IN IF ~shapeOk
          THEN Imported(list,
                 JStr("JSON must be an array of orbs or an object with { orbs: [...] }"),
                 "import")
          ELSE IF Len(normalizeAll(arr)) = 0
          THEN Imported(list, JStr("No valid orbs found in the JSON."), "import")
          ELSE Imported(normalizeAll(arr), JNull, "none")

\* openAdd: the form at its defaults
DefaultForm == Orb("Flame", "Lucifer", "Rare", 0, 0)

\* saveForm: the orb the form is saved as
cleaned(f) ==
  Orb(f.type, f.set, f.rarity,
      clampDefault(f.value), clamp(f.level, 0, 9))

\* saveForm: append when adding, replace when editing
saveForm(list, f, index) ==
  IF index = 0 THEN Append(list, cleaned(f))
  ELSE [list EXCEPT ![index] = cleaned(f)]

(* Inputs *)

ItemSpecExample ==
  RawOrb(JStr("X"), JStr("Y"), JStr("Common"), JNum(0 - 5), JNum(10))

ItemTrimmed == RawOrb(JStr(" Flame "), JStr("Lucifer"), JUndef, JUndef, JUndef)

ItemTypeOnly == RawOrb(JStr("Flame"), JUndef, JStr("Epic"), JNum(7), JNum(2))

ItemSetOnly == RawOrb(JStr("  "), JStr("Lucifer"), JUndef, JUndef, JStr("5"))

ItemBlank == RawOrb(JStr("  "), JStr(""), JStr("Rare"), JNum(1), JNum(1))

ImportTexts ==
  {BadText, Text(JNull), Text(JNum(5)), Text(JStr("orbs")), Text(JObj(<<>>)),
   Text(JObj(<<Prop("orbs", JStr("x"))>>)),
   Text(JArr(<<>>)),
   Text(JArr(<<JNull, ItemBlank>>)),
   Text(JArr(<<ItemTypeOnly>>)),
   Text(JObj(<<Prop("orbs", JArr(<<ItemSetOnly>>))>>)),
   Text(JArr(<<ItemSpecExample>>)),
   Text(JArr(<<ItemSpecExample, ItemTrimmed>>)),
   Text(JArr(<<ItemTypeOnly, ItemTrimmed>>)),
   Text(JArr(<<ItemSetOnly, ItemSpecExample, ItemBlank>>)),
   Text(JObj(<<Prop("orbs", JArr(<<ItemTrimmed, ItemSpecExample>>))>>))}

\* What the user picks or types into the add/edit form.
FormRarities == {"Common"}
FormValues == {0 - 5}
FormLevels == {10}

InitOrbs ==
  /\ editor = "templates"
  /\ profiles = <<>>
  /\ shareable = <<>>
  /\ last = NoAction
  /\ TplIdle
  /\ HeapIdle /\ ParseIdle /\ RunIdle /\ PersistIdle /\ SlotsIdle
  /\ OrbsIdle

OrbsFrame == UNCHANGED <<editor, profiles, shareable, last, tplVars,
                         heapVars, parseVars, runVars, persistVars, slotVars>>

\* The Import JSON dialog trigger.
OpenImport ==
  /\ dialog = "none"
  /\ dialog' = "import"
  /\ oLast' = [op |-> "openImport"]
  /\ UNCHANGED <<orbs, importError, form, editingIndex>>
  /\ OrbsFrame

\* Cancel in the import dialog.
CancelImport ==
  /\ dialog = "import"
  /\ dialog' = "none"
  /\ oLast' = [op |-> "cancelImport"]
  /\ UNCHANGED <<orbs, importError, form, editingIndex>>
  /\ OrbsFrame

\* Import in the import dialog, with the text the textarea holds.
ImportOrbs ==
  \E text \in ImportTexts :
    /\ dialog = "import"
    /\ LET r == parseAndReplaceFromText(orbs, text)
       IN /\ orbs' = r.orbs
          /\ importError' = r.importError
          /\ dialog' = r.dialog
    /\ oLast' = [op |-> "import", text |-> text]
    /\ UNCHANGED <<form, editingIndex>>
    /\ OrbsFrame

OpenAdd ==
  /\ dialog = "none"
  /\ Len(orbs) < MaxOrbs
  /\ editingIndex' = 0
  /\ form' = DefaultForm
  /\ dialog' = "form"
  /\ oLast' = [op |-> "openAdd"]
  /\ UNCHANGED <<orbs, importError>>
  /\ OrbsFrame

OpenEdit ==
  \E index \in DOMAIN orbs :
    /\ dialog = "none"
    /\ editingIndex' = index
    /\ form' = orbs[index]
    /\ dialog' = "form"
    /\ oLast' = [op |-> "openEdit"]
    /\ UNCHANGED <<orbs, importError>>
    /\ OrbsFrame

\* The rarity select of the form.
SetFormRarity ==
  \E r \in FormRarities :
    /\ dialog = "form"
    /\ form' = [form EXCEPT !.rarity = r]
    /\ oLast' = [op |-> "setForm"]
    /\ UNCHANGED <<orbs, importError, dialog, editingIndex>>
    /\ OrbsFrame

\* The value input of the form.
SetFormValue ==
  \E n \in FormValues :
    /\ dialog = "form"
    /\ form' = [form EXCEPT !.value = clampDefault(n)]
    /\ oLast' = [op |-> "setForm"]
    /\ UNCHANGED <<orbs, importError, dialog, editingIndex>>
    /\ OrbsFrame

\* The level input of the form.
SetFormLevel ==
  \E n \in FormLevels :
    /\ dialog = "form"
    /\ form' = [form EXCEPT !.level = clamp(n, 0, 9)]
    /\ oLast' = [op |-> "setForm"]
    /\ UNCHANGED <<orbs, importError, dialog, editingIndex>>
    /\ OrbsFrame

SaveForm ==
  /\ dialog = "form"
  /\ orbs' = saveForm(orbs, form, editingIndex)
  /\ dialog' = "none"
  /\ oLast' = [op |-> "saveForm"]
  /\ UNCHANGED <<importError, form, editingIndex>>
  /\ OrbsFrame

\* Cancel in the add/edit dialog.
CancelForm ==
  /\ dialog = "form"
  /\ dialog' = "none"
  /\ oLast' = [op |-> "cancelForm"]
  /\ UNCHANGED <<orbs, importError, form, editingIndex>>
  /\ OrbsFrame

\* removeOrb: orbs.filter((_, i) => i !== index)
RemoveOrb ==
  \E index \in DOMAIN orbs :
    /\ dialog = "none"
    /\ orbs' = removeAt(orbs, index)
    /\ oLast' = [op |-> "removeOrb"]
    /\ UNCHANGED <<importError, dialog, form, editingIndex>>
    /\ OrbsFrame

\* Clear: setOrbs([])
ClearOrbs ==
  /\ dialog = "none"
  /\ orbs' = <<>>
  /\ oLast' = [op |-> "clear"]
  /\ UNCHANGED <<importError, dialog, form, editingIndex>>
  /\ OrbsFrame

NextOrbs ==
  \/ OpenImport
  \/ CancelImport
  \/ ImportOrbs
  \/ OpenAdd
  \/ OpenEdit
  \/ SetFormRarity
  \/ SetFormValue
  \/ SetFormLevel
  \/ SaveForm
  \/ CancelForm
  \/ RemoveOrb
  \/ ClearOrbs

SpecOrbs == InitOrbs /\ [][NextOrbs]_vars

----------------------------------------------------------------------------
(* Properties of the orb list (checked under SpecOrbs) *)

\* clampLevel's cap: RARITY_LEVEL_CAP[rarity] ?? 9
LevelCap(rarity) ==
  IF rarity \in DOMAIN RARITY_LEVEL_CAP THEN RARITY_LEVEL_CAP[rarity] ELSE 9

\* C16: every orb of the list has 0 <= level <= cap(rarity), with the caps
\* Common/Magic 3, Rare/Epic 6, Legendary/Mythic 9, and value >= 0; so an
\* imported Common orb of value -5 and level 10 is stored with value 0 and
\* level 3.
C16_LevelCap ==
  \A i \in DOMAIN orbs :
    /\ 0 <= orbs[i].level
    /\ orbs[i].level <= LevelCap(orbs[i].rarity)
    /\ orbs[i].value >= 0

\* The array the import reads its items from, when the text has one.
HasItems(text) ==
  /\ text.ok
  /\ text.data.t = "arr" \/ Get(text.data, "orbs").t = "arr"

ItemsOf(text) == IF text.data.t = "arr" THEN text.data.a ELSE Get(text.data, "orbs").a

\* The import fails: the text is no JSON, has no array of items, or none of
\* its items is valid.
ImportFails(text) ==
  \/ ~HasItems(text)
  \/ \A i \in DOMAIN ItemsOf(text) : normalizeOrb(ItemsOf(text)[i]) = JNull

\* C17: a failed import sets an error message and leaves the orb list as it
\* was; a successful one replaces the list by the normalized valid items in
\* input order.
C17_FailedImportKeepsList ==
  [][oLast'.op = "import" =>
       IF ImportFails(oLast'.text)
       THEN orbs' = orbs /\ importError'.t = "str" /\ importError'.s # ""
       ELSE orbs' = normalizeAll(ItemsOf(oLast'.text)) /\ importError' = JNull]_vars

\* An import has just failed on a list that held orbs.
C17_Witness ==
  /\ oLast.op = "import"
  /\ ImportFails(oLast.text)
  /\ orbs # <<>>
  /\ importError.t = "str"

\* The item has a `type` or a `set` that is not empty after trimming.
HasTypeOrSet(item) ==
  \/ Trim(JsString(Coalesce(Get(item, "type"), JStr("")))) # ""
  \/ Trim(JsString(Coalesce(Get(item, "set"), JStr("")))) # ""

\* C18: an import drops the items that lack both `type` and `set` and keeps
\* every item that has at least one of the two.
C18_DropsOnlyWithoutBoth ==
  (oLast.op = "import" /\ HasItems(oLast.text)
     /\ \E i \in DOMAIN ItemsOf(oLast.text) : HasTypeOrSet(ItemsOf(oLast.text)[i])) =>
    Len(orbs) = Len(SelectSeq(ItemsOf(oLast.text), HasTypeOrSet))

----------------------------------------------------------------------------
(* The optimize request (SpecRun): handleRun and postOptimize *)

\* Most optimize requests the user starts.
MaxRuns == 2

\* Home: the payload memo
Payload(orbList, profileList, shareableList) ==
  [orbs |-> orbList, profiles |-> profileList,
   shareable_categories |-> shareableList, algorithm |-> "greedy"]

\* An OptimizeResponse: what the solver answers to a payload.
Response(payload) == [t |-> "response", ok |-> TRUE, payload |-> payload]

\* A thrown Error: its name and its message.
Thrown(name, message) == [name |-> name, message |-> message]

\* String(e) of an Error
ErrorString(e) == IF e.message = "" THEN e.name ELSE e.name \o ": " \o e.message

\* How the network answers a request: a 2xx response whose body parses, a
\* 2xx response whose body does not, a non-2xx response whose text can or
\* cannot be read, or no response at all (fetch rejects).
Outcomes(payload) ==
  {[kind |-> "ok", body |-> Response(payload)],
   [kind |-> "badBody", e |-> Thrown("SyntaxError", "Unexpected end of JSON input")],
   [kind |-> "noResponse", e |-> Thrown("TypeError", "Failed to fetch")],
   [kind |-> "noResponse", e |-> Thrown("AbortError", "")],
   [kind |-> "noText", status |-> 502, e |-> Thrown("TypeError", "network error")]}
  \cup {[kind |-> "status", status |-> st, txt |-> txt] :
          st \in {422, 500}, txt \in {"", "Internal Server Error"}}

\* What awaiting postOptimize gives: the data returned or the error thrown.
Returned(data) == [threw |-> FALSE, data |-> data]

Threw(e) == [threw |-> TRUE, e |-> e]

postOptimize(outcome) ==
  CASE outcome.kind = "noResponse" -> Threw(outcome.e)
    [] outcome.kind = "status" ->
         Threw(Thrown("Error", "HTTP " \o ToString(outcome.status) \o ": " \o outcome.txt))
    [] outcome.kind = "noText" -> Threw(outcome.e)
    [] outcome.kind = "badBody" -> Threw(outcome.e)
    [] OTHER -> Returned(outcome.body)

\* Home state as handleRun leaves it.
RunState(l, e, r) == [loading |-> l, error |-> e, resp |-> r]

\* handleRun up to its await: setLoading(true); setError(null); setResp(null)
handleRunStart == RunState(TRUE, JNull, JNull)

\* Variant: the catch block reports the failure by a toast only.
handleRunSettle_toastOnly(cur, outcome) ==
  LET r == postOptimize(outcome)
  IN IF r.threw THEN RunState(FALSE, cur.error, cur.resp)
     ELSE RunState(FALSE, cur.error, r.data)

\* Variant: setLoading(false) is the last statement of the try block, not a
\* finally block.
handleRunSettle_noFinally(cur, outcome) ==
  LET r == postOptimize(outcome)
  IN IF r.threw
     THEN RunState(cur.loading,
                   JStr(IF r.e.message # "" THEN r.e.message ELSE ErrorString(r.e)),
                   cur.resp)
     ELSE RunState(FALSE, cur.error, r.data)

\* handleRun after its await: try / catch / finally
handleRunSettle(cur, outcome) ==
  LET r == postOptimize(outcome)
  IN IF r.threw
     THEN RunState(FALSE,
                   JStr(IF r.e.message # "" THEN r.e.message ELSE ErrorString(r.e)),
                   cur.resp)
     ELSE RunState(FALSE, cur.error, r.data)

\* Variant: the body is serialized from the page's state when the network
\* takes the request up, not when Run was clicked.
bodySent_live(req, live) == live

\* postOptimize: body: JSON.stringify(payload), serialized before the fetch
\* is awaited.  req is the request dispatched, live the payload memo of the
\* page as it is now.
bodySent(req, live) == req.payload

\* Variant: the Run button stays enabled.
RunDisabled_never == FALSE

\* The Run button: disabled={loading}
RunDisabled == loading

InitRun ==
  /\ editor = "plain"
  /\ profiles = <<>>
  /\ shareable = <<>>
  /\ last = NoAction
  /\ TplIdle
  /\ HeapIdle /\ ParseIdle /\ OrbsIdle /\ PersistIdle /\ SlotsIdle
  /\ RunIdle

RunFrame == UNCHANGED <<editor, profiles, shareable, last, tplVars,
                        heapVars, parseVars, orbVars, persistVars, slotVars>>

\* A click on Run Optimizer: handleRun runs up to the fetch it awaits.
Run ==
  /\ ~RunDisabled
  /\ runs < MaxRuns
  /\ loading' = handleRunStart.loading
  /\ error' = handleRunStart.error
  /\ resp' = handleRunStart.resp
  /\ pending' = Append(pending, [payload |-> Payload(orbs, profiles, shareable)])
  /\ runs' = runs + 1
  /\ rLast' = [op |-> "run", prior |-> resp]
  /\ RunFrame

\* The network answers a request in flight and handleRun runs to its end.
Settle ==
  \E i \in DOMAIN pending :
    \E outcome \in Outcomes(bodySent(pending[i],
                                      Payload(orbs, profiles, shareable))) :
      LET r == handleRunSettle(RunState(loading, error, resp), outcome)
      IN /\ loading' = r.loading
         /\ error' = r.error
         /\ resp' = r.resp
         /\ pending' = removeAt(pending, i)
         /\ rLast' = [op |-> "settle", outcome |-> outcome]
         /\ UNCHANGED runs
         /\ RunFrame

NextRun ==
  \/ Run
  \/ Settle
  \/ AddProfile
  \/ RemoveProfile

SpecRun == InitRun /\ [][NextRun]_vars

\* The browser settles every fetch: with a response, or with a rejection
\* when the connection fails or times out.
SpecRunFair == SpecRun /\ WF_vars(Settle)

\* The page with one orb or none, where the user edits all three inputs of
\* the payload around a request: the orb list (Clear), the profile list and
\* the shareable set.
InitRunEdit ==
  /\ editor = "plain"
  /\ profiles = <<>>
  /\ shareable = <<>>
  /\ last = NoAction
  /\ TplIdle
  /\ HeapIdle /\ ParseIdle /\ PersistIdle /\ SlotsIdle
  /\ orbs \in {<<>>, <<Orb("Flame", "Lucifer", "Rare", 0, 0)>>}
  /\ importError = JNull
  /\ dialog = "none"
  /\ form = DefaultForm
  /\ editingIndex = 0
  /\ oLast = [op |-> "init"]
  /\ RunIdle

NextRunEdit ==
  \/ Run
  \/ Settle
  \/ AddProfile
  \/ ToggleShareable
  \/ ClearOrbs

SpecRunEdit == InitRunEdit /\ [][NextRunEdit]_vars

----------------------------------------------------------------------------
(* Properties of the optimize request *)

\* C19 (under SpecRun): while a request is in flight the page is in the
\* running state and Run is disabled, so at most one request is pending in
\* every reachable state.
C19_SingleInFlight ==
  /\ Len(pending) <= 1
  /\ pending # <<>> => loading /\ RunDisabled

\* A second request is in flight after the first has settled.
C19_Witness ==
  /\ runs = 2
  /\ Len(pending) = 1
  /\ loading

\* The last request has settled with exactly one outcome stored.
SettledOnce ==
  rLast.op = "settle" =>
    /\ ~loading
    /\ IF rLast.outcome.kind = "ok"
       THEN resp = rLast.outcome.body /\ error = JNull
       ELSE error.t = "str" /\ error.s # "" /\ resp = JNull
    /\ (resp = JNull) # (error = JNull)

JustFailed == rLast'.op = "settle" /\ rLast'.outcome.kind # "ok"

\* C21 (under SpecRun): a request that fails while the result of an earlier
\* successful run is held leaves that result held: after the failure resp is
\* still the result that was held when the failing run was started.
C21_FailureKeepsPrior ==
  [][(JustFailed /\ rLast.op = "run" /\ rLast.prior # JNull) =>
       resp' = rLast.prior]_vars

----------------------------------------------------------------------------
(* Local persistence (SpecPersist): saveState, loadState, clearState as    *)
(* Home calls them                                                          *)

\* Most save and clear calls the user makes after the page has mounted.
MaxStorageOps == 2

\* The text JSON.stringify(v) writes, kept as the value JSON.parse reads
\* back from it.
JsonText(v) == [t |-> "json", v |-> v]

\* A stored text JSON.parse throws on, such as {"orbs":[
CorruptText == [t |-> "corrupt"]

\* The stored text ""
EmptyText == [t |-> "empty"]

\* The value JSON.parse returned, as loadState hands it to its caller.
JSaved(v) == [t |-> "saved", v |-> v]

\* Home: type SavedState
SavedState(orbList, profileList, shareableList) ==
  [orbs |-> orbList, profiles |-> profileList, shareable |-> shareableList]

\* How a storage call can fail: JSON.stringify throws, or localStorage
\* throws from setItem (quota), getItem or removeItem (access denied).
SaveFaults == {"none", "stringify", "setItem"}

LoadFaults == {"none", "getItem"}

ClearFaults == {"none", "removeItem"}

\* What a persistence function does: it returns a value or throws, and it
\* leaves the store holding an item or none.
PRet(value, store) == [threw |-> FALSE, ret |-> value, storage |-> store]

saveState(store, obj, fault) ==
  IF fault \in {"stringify", "setItem"}
  THEN PRet(JBool(FALSE), store)
  ELSE PRet(JBool(TRUE), JsonText(obj))

loadState(store, fault) ==
  IF fault = "getItem" THEN PRet(JNull, store)
  ELSE IF store.t \in {"null", "empty"} THEN PRet(JNull, store)
  ELSE IF store.t = "corrupt" THEN PRet(JNull, store)
  ELSE PRet(JSaved(store.v), store)

clearState(store, fault) ==
  IF fault = "removeItem" THEN PRet(JUndef, store) ELSE PRet(JUndef, JNull)

\* saved.<k> ?? []
SavedField(saved, k) == IF k \in DOMAIN saved THEN saved[k] ELSE <<>>

\* What the store can hold when the page opens: nothing, an empty or a
\* damaged text, a setup saved earlier, or an object without the fields.
StoredInputs ==
  {JNull, EmptyText, CorruptText,
   JsonText(SavedState(<<Orb("Flame", "Lucifer", "Rare", 0, 0)>>,
                       <<blankPlain>>, <<"Soul">>)),
   JsonText(SavedState(<<>>, <<[blankPlain EXCEPT !.name = "Farm"],
                               [blankPlain EXCEPT !.name = "Boss"],
                               [blankPlain EXCEPT !.name = "Arena"]>>, <<>>)),
   JsonText([orbs |-> <<Orb("Flame", "Lucifer", "Rare", 0, 0)>>])}

InitPersist ==
  /\ editor = "plain"
  /\ profiles = <<>>
  /\ shareable = <<>>
  /\ last = NoAction
  /\ TplIdle
  /\ HeapIdle /\ ParseIdle /\ OrbsIdle /\ RunIdle /\ SlotsIdle
  /\ storage \in StoredInputs
  /\ pLast = [op |-> "init", n |-> 0]

PersistFrame == UNCHANGED <<editor, last, tplVars, heapVars, parseVars,
                            importError, dialog, form, editingIndex, oLast,
                            runVars, slotVars>>

\* The load effect has run.
Mounted == pLast.op # "init"

\* Home: the effect that loads the saved state on mount
Mount ==
  /\ ~Mounted
  /\ \E fault \in LoadFaults :
       LET r == loadState(storage, fault)
       IN /\ IF r.ret.t = "saved"
             THEN /\ orbs' = SavedField(r.ret.v, "orbs")
                  /\ profiles' = SavedField(r.ret.v, "profiles")
                  /\ shareable' = SavedField(r.ret.v, "shareable")
             ELSE UNCHANGED <<orbs, profiles, shareable>>
          /\ storage' = r.storage
          /\ pLast' = [op |-> "load", n |-> pLast.n + 1,
                       failed |-> (fault # "none" \/ storage.t = "corrupt"),
                       threw |-> r.threw, ret |-> r.ret,
                       toast |-> IF r.ret.t = "saved"
                                 THEN "Restored your saved setup." ELSE ""]
  /\ PersistFrame

\* Home: handleSave
Save ==
  /\ Mounted
  /\ pLast.n <= MaxStorageOps
  /\ \E fault \in SaveFaults :
       LET r == saveState(storage, SavedState(orbs, profiles, shareable), fault)
       IN /\ storage' = r.storage
          /\ pLast' = [op |-> "save", n |-> pLast.n + 1,
                       failed |-> (fault # "none"),
                       threw |-> r.threw, ret |-> r.ret,
                       toast |-> IF Truthy(r.ret) THEN "Saved your setup."
                                 ELSE "Could not save (localStorage error)."]
  /\ UNCHANGED <<orbs, profiles, shareable>>
  /\ PersistFrame

\* Home: handleClearSaved
ClearSaved ==
  /\ Mounted
  /\ pLast.n <= MaxStorageOps
  /\ \E fault \in ClearFaults :
       LET r == clearState(storage, fault)
       IN /\ storage' = r.storage
          /\ pLast' = [op |-> "clear", n |-> pLast.n + 1,
                       failed |-> (fault # "none"),
                       threw |-> r.threw, ret |-> r.ret,
                       toast |-> "Cleared saved data."]
  /\ UNCHANGED <<orbs, profiles, shareable>>
  /\ PersistFrame

\* The user edits the profile list of the mounted page.
PersistAddProfile == Mounted /\ AddProfile

PersistRemoveProfile == Mounted /\ RemoveProfile

NextPersist ==
  \/ Mount
  \/ Save
  \/ ClearSaved
  \/ PersistAddProfile
  \/ PersistRemoveProfile

SpecPersist == InitPersist /\ [][NextPersist]_vars

----------------------------------------------------------------------------
(* Properties of local persistence *)

\* This step is a persistence call whose storage operation failed.
PersistFailed == pLast'.n # pLast.n /\ pLast'.failed

\* C22 (under SpecPersist): a save, load or clear whose storage operation
\* fails does not throw, hands its caller a status (false, or null for a
\* load), and leaves orbs, profiles and the shareable set as they were.
C22_FailureReported ==
  [][PersistFailed =>
       /\ ~pLast'.threw
       /\ pLast'.ret \in {JBool(FALSE), JNull}
       /\ UNCHANGED <<orbs, profiles, shareable>>]_vars

----------------------------------------------------------------------------
(* Properties of the profile list: category values, addProfile,            *)
(* removeProfile                                                            *)

\* C23 (under Spec): in every reachable state every value stored in a
\* profile's categories is one of Rare, Epic, Legendary, Mythic.
C23_RarityDomain ==
  \A i \in DOMAIN profiles :
    \A c \in DOMAIN profiles[i].categories :
      profiles[i].categories[c] \in {"Rare", "Epic", "Legendary", "Mythic"}

\* This step is an addProfile.
JustAdded == last'.op = "addProfile" /\ profiles' # profiles

\* The profile has the baseline values: weight 1, objective sets-first,
\* power 2.0, epsilon 0.02 and four empty maps.
IsBaseline(p) ==
  /\ p.weight = 1
  /\ p.objective = "sets-first"
  /\ p.power = 20
  /\ p.epsilon = 2
  /\ \A f \in {"categories", "set_priority", "orb_weights", "orb_level_weights"} :
       DOMAIN p[f] = {}

\* C26 (under Spec): addProfile appends exactly one profile, at the end,
\* with the baseline values, and leaves the profiles already in the list
\* and their order as they were.
C26_AddAppendsBaseline ==
  [][JustAdded =>
       /\ Len(profiles') = Len(profiles) + 1
       /\ SubSeq(profiles', 1, Len(profiles)) = profiles
       /\ IsBaseline(profiles'[Len(profiles')])]_vars

\* A profile has just been added after one whose categories were edited.
C26_Witness ==
  /\ last.op = "addProfile"
  /\ Len(profiles) = 2
  /\ DOMAIN profiles[1].categories # {}
  /\ IsBaseline(profiles[2])

\* C27 (under Spec): the profile addProfile appends has a name that no
\* profile already in the list has.
C27_DistinctName ==
  [][JustAdded =>
       \A i \in DOMAIN profiles :
         profiles[i].name # profiles'[Len(profiles')].name]_vars

\* This step is a removeProfile.
JustRemoved == last'.op = "removeProfile" /\ profiles' # profiles

\* C28 (under SpecPersist): removeProfile(index) shrinks the list by one,
\* the profiles before the index stay where they were and the profiles
\* after it move up by one, each unchanged.
C28_RemoveExactlyIndex ==
  [][JustRemoved =>
       /\ Len(profiles') = Len(profiles) - 1
       /\ \A j \in DOMAIN profiles' :
            profiles'[j] = IF j < last'.index THEN profiles[j] ELSE profiles[j + 1]
       /\ profiles' = SubSeq(profiles, 1, last'.index - 1)
                        \o SubSeq(profiles, last'.index + 1, Len(profiles))]_vars

\* The first of three profiles has just been removed: the other two stay,
\* in their order.
C28_Witness ==
  /\ last.op = "removeProfile"
  /\ last.index = 1
  /\ Len(profiles) = 2
  /\ profiles[1].name = "Boss"
  /\ profiles[2].name = "Arena"

----------------------------------------------------------------------------
(* The slot tables (SpecSlots): slotsForRarity, rarityToSlots and the      *)
(* slot counts ProfileCategoryPicker shows                                  *)

CATEGORY_RARITY_CHOICES == <<"Rare", "Epic", "Legendary", "Mythic">>

CATEGORY_RARITY_SLOTS == [Rare |-> 1, Epic |-> 2, Legendary |-> 3, Mythic |-> 4]

rarityToSlots ==
  [Common |-> 0, Magic |-> 0, Rare |-> 1, Epic |-> 2, Legendary |-> 3, Mythic |-> 4]

\* type Rarity
RaritySet == DOMAIN rarityToSlots

\* A function value, such as a method an object inherits.
JFunc(name) == [t |-> "func", f |-> name]

\* Some of the names an object literal inherits from Object.prototype, each
\* bound to a function.
ObjectPrototypeKeys == {"constructor", "toString", "valueOf", "hasOwnProperty"}

\* table[key] on an object literal of numbers: an own property, else an
\* inherited one, else undefined.
Lookup(table, key) ==
  IF key \in DOMAIN table THEN JNum(table[key])
  ELSE IF key \in ObjectPrototypeKeys THEN JFunc(key)
  ELSE JUndef

slotsForRarity(rarity) == Coalesce(Lookup(CATEGORY_RARITY_SLOTS, rarity), JNum(0))

\* ProfileCategoryPicker: value[c] || "Rare"
pickerRarity(value, c) ==
  IF c \in DOMAIN value /\ value[c] # "" THEN value[c] ELSE "Rare"

\* ProfileCategoryPicker: CATEGORIES.reduce((sum, c) => sum + slotsFor..., 0)
\* over the first i categories.  The labels drawn for a categories map all
\* look up to numbers, so + is the addition of numbers.
RECURSIVE reduceSlots(_, _)
reduceSlots(value, i) ==
  IF i = 0 THEN 0
  ELSE reduceSlots(value, i - 1)
         + slotsForRarity(pickerRarity(value, CATEGORIES[i])).n

totalSlots(value) == reduceSlots(value, Len(CATEGORIES))

\* The labels a categories map can hold: the four choices and the empty
\* string the editor with templates stores on clear.
PickerLabels == {"Rare", "Epic", "Mythic", ""}

\* The categories maps handed to the picker.
PickerInputs ==
  UNION {[ks -> PickerLabels] : ks \in SUBSET {"Soul", "Wagon"}}

\* The strings handed to slotsForRarity.
RarityInputs ==
  RaritySet \cup {"", "rare", "Unique"} \cup ObjectPrototypeKeys

InitSlots ==
  /\ editor = "plain"
  /\ profiles = <<>>
  /\ shareable = <<>>
  /\ last = NoAction
  /\ TplIdle
  /\ HeapIdle /\ ParseIdle /\ OrbsIdle /\ RunIdle /\ PersistIdle
  /\ slotValue \in PickerInputs
  /\ slotRarity \in RarityInputs
  /\ slotOut = [op |-> "init"]

SlotsFrame == UNCHANGED <<editor, profiles, shareable, last, tplVars,
                          heapVars, parseVars, orbVars, runVars, persistVars>>

\* ProfileCategoryPicker renders: the total and the count of each category.
RenderPicker ==
  /\ slotOut' = [op |-> "render",
                 total |-> totalSlots(slotValue),
                 slots |-> [i \in DOMAIN CATEGORIES |->
                              slotsForRarity(pickerRarity(slotValue, CATEGORIES[i]))]]
  /\ UNCHANGED <<slotValue, slotRarity>>
  /\ SlotsFrame

\* ProfileCategoryPicker: the Select of a category changes.
PickRarity ==
  \E i \in DOMAIN CATEGORIES, r \in {"Legendary"} :
    /\ \E j \in DOMAIN CATEGORY_RARITY_CHOICES : CATEGORY_RARITY_CHOICES[j] = r
    /\ slotValue' = MapSet(slotValue, CATEGORIES[i], r)
    /\ slotOut' = [op |-> "onChange"]
    /\ UNCHANGED slotRarity
    /\ SlotsFrame

\* A call of slotsForRarity.
SlotsForRarity ==
  /\ slotOut' = [op |-> "slotsForRarity", ret |-> slotsForRarity(slotRarity)]
  /\ UNCHANGED <<slotValue, slotRarity>>
  /\ SlotsFrame

\* A read of rarityToSlots[r] for a Rarity r.
RarityToSlots ==
  /\ slotRarity \in RaritySet
  /\ slotOut' = [op |-> "rarityToSlots", ret |-> Lookup(rarityToSlots, slotRarity)]
  /\ UNCHANGED <<slotValue, slotRarity>>
  /\ SlotsFrame

NextSlots ==
  \/ RenderPicker
  \/ PickRarity
  \/ SlotsForRarity
  \/ RarityToSlots

SpecSlots == InitSlots /\ [][NextSlots]_vars

----------------------------------------------------------------------------
(* Properties of the slot tables *)

\* The slot count of a rarity label as the tables give it: 1, 2, 3, 4 for
\* Rare, Epic, Legendary, Mythic and 0 for anything else.
SlotsOf(label) ==
  CASE label = "Rare" -> 1
    [] label = "Epic" -> 2
    [] label = "Legendary" -> 3
    [] label = "Mythic" -> 4
    [] OTHER -> 0

\* The slots of the first i categories, counting the present keys only.
RECURSIVE PresentSlots(_, _)
PresentSlots(value, i) ==
  IF i = 0 THEN 0
  ELSE PresentSlots(value, i - 1)
         + (IF CATEGORIES[i] \in DOMAIN value
            THEN SlotsOf(value[CATEGORIES[i]]) ELSE 0)

\* C24 (under SpecSlots): the slot count shown for a category is
\* slotsForRarity(categories[cat]) when the key is present and 0 when it is
\* absent, and the total is the sum over the present categories.
C24_AbsentMeansZero ==
  slotOut.op = "render" =>
    /\ \A i \in DOMAIN CATEGORIES :
         slotOut.slots[i] =
           IF CATEGORIES[i] \in DOMAIN slotValue
           THEN slotsForRarity(slotValue[CATEGORIES[i]]) ELSE JNum(0)
    /\ slotOut.total = PresentSlots(slotValue, Len(CATEGORIES))

\* C25 (under SpecSlots): slotsForRarity returns 1, 2, 3, 4 for Rare, Epic,
\* Legendary, Mythic and 0 for every other string, and rarityToSlots gives
\* the same count for each of the six rarities.
C25_SlotsTotal ==
  /\ slotOut.op = "slotsForRarity" => slotOut.ret = JNum(SlotsOf(slotRarity))
  /\ slotOut.op = "rarityToSlots" => slotOut.ret = slotsForRarity(slotRarity)

\* C29 (under SpecRunFair): every run that enters the running state leaves
\* it, whether the request succeeds or fails: loading returns to false and
\* Run is enabled again, so the page is never stuck running.
C29_RunLiveness ==
  /\ loading ~> (~loading /\ ~RunDisabled /\ pending = <<>>)
  /\ []<>(~loading)

\* A second run has failed on a rejected fetch and the page has left the
\* running state.
C29_Witness ==
  /\ runs = 2
  /\ rLast.op = "settle"
  /\ rLast.outcome.kind = "noResponse"
  /\ ~loading
  /\ ~RunDisabled

\* This step dispatches a request.
JustRun == runs' = runs + 1

\* This step completes a request.
JustSettled == Len(pending') < Len(pending)

\* C30 (under SpecRunEdit): the payload of a request is the orbs, profiles
\* and shareable set of the moment Run was clicked, with algorithm greedy;
\* an edit made while the request is in flight does not change it, the
\* solver answers that payload, and the completion of the request leaves
\* orbs, profiles and the shareable set as the edits left them.
C30_PayloadSnapshot ==
  [][/\ JustRun =>
          pending'[Len(pending')].payload =
            [orbs |-> orbs, profiles |-> profiles,
             shareable_categories |-> shareable, algorithm |-> "greedy"]
     /\ (~JustRun /\ ~JustSettled) => pending' = pending
     /\ JustSettled =>
          /\ UNCHANGED <<orbs, profiles, shareable>>
          /\ rLast'.outcome.kind = "ok" =>
               /\ resp' = rLast'.outcome.body
               /\ \E i \in DOMAIN pending : resp'.payload = pending[i].payload]_vars

\* A request has succeeded after the user cleared the orbs, added a profile
\* and made a category shareable while it was in flight: the response is
\* for the payload as it was at the click.
C30_Witness ==
  /\ rLast.op = "settle"
  /\ rLast.outcome.kind = "ok"
  /\ resp.payload.orbs # <<>> /\ orbs = <<>>
  /\ resp.payload.profiles = <<>> /\ profiles # <<>>
  /\ resp.payload.shareable_categories = <<>> /\ shareable # <<>>

====
